---- MODULE Spec2Model ----
(***************************************************************************)
(* A model of mpipe's resilient request layer: the retry/backoff executor  *)
(* (src/rchain/chat_runtime.rs), the wire adapter and provider dispatch    *)
(* (src/rchain/openai.rs, src/rchain/provider.rs) and the configuration    *)
(* resolver (src/config.rs, src/bin/mpask.rs).                             *)
(*                                                                         *)
(* TLC's integers are 32-bit, while the code computes on u32 and u64       *)
(* values up to 2^64 - 1.  Every machine integer of the code is therefore  *)
(* an unbounded natural written as a little-endian sequence of base-10000  *)
(* limbs without leading zero limbs (<<>> is 0, <<7295, 9496, 42>> is      *)
(* 4294967295); the width of a Rust type is kept by comparing against the  *)
(* type's maximum, as the saturating and checked operations do.            *)
(*                                                                         *)
(* An Option<T> is a sequence of length at most one: <<>> is None and      *)
(* <<x>> is Some(x).                                                       *)
(***************************************************************************)
EXTENDS Integers, Sequences, FiniteSets, TLC

VARIABLES
    \* the pure functions of chat_runtime.rs, applied to one input
    st_pc, st_status, st_result,
    dl_pc, dl_attempt, dl_base, dl_result,
    \* provider::ask and the adapter it dispatches to
    pc,             \* where the invocation stands
    provider,       \* the Provider passed to provider::ask
    env_keys,       \* the environment: credential variable -> Option<String>
    env_reads,      \* the credential variables that env::var was called on, and for what
    options,        \* AskOptions: retries, retry_delay_ms
    adapter,        \* Option: the adapter ask dispatched to
    api_key,        \* the adapter's api_key
    ask_result,     \* Option: what ask returned
    \* send_chat_request_with_retry
    max_attempts, attempt, exec_result,
    \* the network and the timer, as the executor drives them
    inflight,       \* the HTTP requests sent and not yet answered
    calls,          \* the number of HTTP requests sent
    outcomes,       \* the outcome of each answered request, in order
    sleeps,         \* the duration of each backoff sleep, in order
    \* bin/mpask.rs run(): the configuration resolver
    cli,            \* Cli: the parsed command line
    env_vars,       \* the environment: MP_* variable -> Option<String>
    config_file,    \* the file at config_path(): status, profiles, providers
    rs_pc,          \* the next statement of run()
    load_locals,    \* Option: load_profile's profile and provider_defaults
    run_profile,    \* Option: run()'s profile
    resolved,       \* run()'s locals provider .. system, None until bound
    run_error,      \* Option: the error run() returned
    \* bin/mpask.rs run(): the prompt, the request and the output
    stdin,          \* Option: the piped standard input, None for a terminal
    main_prompt,    \* Option: run()'s main_prompt
    prompt,         \* Option: run()'s prompt
    messages,       \* Option: run()'s messages
    stdout,         \* what was printed on the primary output, in order
    stderr,         \* what was printed on the error channel, in order
    saved,          \* Option: what was written to the file of --save
    argv_rest,      \* the arguments of the command line that Cli does not declare
    exit_code       \* Option: the exit status of the process

pureVars == <<st_pc, st_status, st_result, dl_pc, dl_attempt, dl_base, dl_result>>

askVars == <<pc, provider, env_keys, env_reads, options, adapter, api_key, ask_result>>

execVars == <<max_attempts, attempt, exec_result>>

netVars == <<inflight, calls, outcomes, sleeps>>

resolveVars ==
    <<cli, env_vars, config_file, rs_pc, load_locals, run_profile, resolved, run_error>>

runVars == <<stdin, main_prompt, prompt, messages, stdout, stderr, saved, argv_rest, exit_code>>

vars == <<pureVars, askVars, execVars, netVars, resolveVars, runVars>>

----------------------------------------------------------------------------
(* Option<T> *)

None == <<>>

Some(x) == <<x>>

is_some(o) == o # <<>>

unwrap_or(o, d) == IF o = <<>> THEN d ELSE o[1]

(* Option::or *)
or(o, other) == IF o # <<>> THEN o ELSE other

----------------------------------------------------------------------------
(* Unbounded naturals as limb sequences *)

Base == 10000

RECURSIVE N(_)
N(k) == IF k = 0 THEN <<>> ELSE <<k % Base>> \o N(k \div Base)

RestOf(a) == IF a = <<>> THEN <<>> ELSE Tail(a)

LimbOf(a) == IF a = <<>> THEN 0 ELSE Head(a)

RECURSIVE AddC(_, _, _)
AddC(a, b, c) ==
    IF a = <<>> /\ b = <<>>
    THEN (IF c = 0 THEN <<>> ELSE <<c>>)
    ELSE LET s == LimbOf(a) + LimbOf(b) + c
         IN  <<s % Base>> \o AddC(RestOf(a), RestOf(b), s \div Base)

BigAdd(a, b) == AddC(a, b, 0)

RECURSIVE MulC(_, _, _)
MulC(a, d, c) ==
    IF a = <<>>
    THEN (IF c = 0 THEN <<>> ELSE <<c>>)
    ELSE LET p == Head(a) * d + c
         IN  <<p % Base>> \o MulC(Tail(a), d, p \div Base)

MulLimb(a, d) == IF d = 0 THEN <<>> ELSE MulC(a, d, 0)

ShiftLimb(a) == IF a = <<>> THEN <<>> ELSE <<0>> \o a

RECURSIVE BigMul(_, _)
BigMul(a, b) ==
    IF a = <<>> \/ b = <<>>
    THEN <<>>
    ELSE BigAdd(MulLimb(a, Head(b)), ShiftLimb(BigMul(a, Tail(b))))

RECURSIVE LtFromTop(_, _, _)
LtFromTop(a, b, i) ==
    IF i = 0 THEN FALSE
    ELSE IF a[i] # b[i] THEN a[i] < b[i]
    ELSE LtFromTop(a, b, i - 1)

BigLt(a, b) ==
    IF Len(a) # Len(b) THEN Len(a) < Len(b) ELSE LtFromTop(a, b, Len(a))

BigLe(a, b) == ~BigLt(b, a)

BigMin(a, b) == IF BigLt(b, a) THEN b ELSE a

RECURSIVE Pow2(_)
Pow2(k) ==
    IF k = 0 THEN <<1>>
    ELSE IF k % 2 = 1 THEN MulLimb(Pow2(k - 1), 2)
    ELSE LET h == Pow2(k \div 2) IN BigMul(h, h)

(* the value of a limb sequence known to be below Base^2 *)
Small(a) == LimbOf(a) + Base * LimbOf(RestOf(a))

U32_MAX == <<7295, 9496, 42>>

U64_MAX == <<1615, 955, 737, 6744, 1844>>

(* u32::saturating_add *)
saturating_add(a, b) ==
    LET s == BigAdd(a, b) IN IF BigLt(U32_MAX, s) THEN U32_MAX ELSE s

(* 1u64.checked_shl(rhs): None when rhs >= 64, the bits of u64 *)
checked_shl_one(rhs) ==
    IF BigLt(rhs, N(64)) THEN Some(Pow2(Small(rhs))) ELSE None

(* u64::saturating_mul *)
saturating_mul(a, b) ==
    LET p == BigMul(a, b) IN IF BigLt(U64_MAX, p) THEN U64_MAX ELSE p

----------------------------------------------------------------------------
(* chat_runtime.rs: the pure functions *)

(* http::StatusCode: 100 ..= 999 *)
StatusCodes == 100..999

is_success(status) == 300 > status /\ status >= 200

is_server_error(status) == 600 > status /\ status >= 500

TOO_MANY_REQUESTS == 429

is_retryable_status_NoRateLimit(status) == is_server_error(status)

is_retryable_status(status) ==
    status = TOO_MANY_REQUESTS \/ is_server_error(status)

MAX_DELAY_MS == 30000

retry_delay_ShiftZero(n, base_ms) ==
    LET factor   == unwrap_or(checked_shl_one(n), <<>>)
        delay_ms == BigMin(saturating_mul(base_ms, factor), N(MAX_DELAY_MS))
    IN  delay_ms

retry_delay(n, base_ms) ==
    LET factor   == unwrap_or(checked_shl_one(n), U64_MAX)
        delay_ms == BigMin(saturating_mul(base_ms, factor), N(MAX_DELAY_MS))
    IN  delay_ms

----------------------------------------------------------------------------
(* u32 addition: a debug build panics on overflow, a release build wraps *)

RECURSIVE SubB(_, _, _)
SubB(a, b, w) ==
    IF a = <<>> THEN <<>>
    ELSE LET d == Head(a) - LimbOf(b) - w
         IN  <<d % Base>> \o SubB(Tail(a), RestOf(b), IF d < 0 THEN 1 ELSE 0)

RECURSIVE Canon(_)
Canon(a) ==
    IF a = <<>> \/ a[Len(a)] # 0 THEN a ELSE Canon(SubSeq(a, 1, Len(a) - 1))

(* a - b for a >= b *)
BigSub(a, b) == Canon(SubB(a, b, 0))

add_u32(a, b) ==
    LET s == BigAdd(a, b)
    IN  IF BigLt(U32_MAX, s)
        THEN {[panic |-> TRUE, v |-> <<>>],
              [panic |-> FALSE, v |-> BigSub(s, BigAdd(U32_MAX, N(1)))]}
        ELSE {[panic |-> FALSE, v |-> s]}

----------------------------------------------------------------------------
(* provider.rs: the provider registry *)

Providers == {"Openai", "Fireworks"}

as_str(p) == IF p = "Openai" THEN "openai" ELSE "fireworks"

endpoint(p) ==
    IF p = "Openai"
    THEN "https://api.openai.com/v1/chat/completions"
    ELSE "https://api.fireworks.ai/inference/v1/chat/completions"

(* api_key_env, were every provider given the variable of OpenAI *)
api_key_env_OpenaiOnly(p) == "OPENAI_API_KEY"

api_key_env(p) == IF p = "Openai" THEN "OPENAI_API_KEY" ELSE "FIREWORKS_API_KEY"

KeyEnvs == {api_key_env(p) : p \in Providers}

(* the URL constant of each adapter; rchain/fireworks.rs is not part of the
   sources at hand, its adapter is taken to be the OpenAI adapter with the
   registry's Fireworks endpoint *)
OPENAI_CHAT_COMPLETIONS_URL == "https://api.openai.com/v1/chat/completions"

FIREWORKS_CHAT_COMPLETIONS_URL == "https://api.fireworks.ai/inference/v1/chat/completions"

CHAT_COMPLETIONS_URL(a) ==
    IF a = "Openai" THEN OPENAI_CHAT_COMPLETIONS_URL ELSE FIREWORKS_CHAT_COMPLETIONS_URL

----------------------------------------------------------------------------
(* What one HTTP attempt can end with.  A response carries its status; a
   non-success response carries what response.text() gives (None when the
   body cannot be read); a success response carries whether its body parses
   as a ChatCompletionResponse and the content of each of its choices. *)

HttpOk(parses, choices) ==
    [kind |-> "http", status |-> 200, err |-> "",
     text |-> None, parses |-> parses, choices |-> choices]

HttpFail(status, text) ==
    [kind |-> "http", status |-> status, err |-> "",
     text |-> text, parses |-> FALSE, choices |-> <<>>]

NetErr(err) ==
    [kind |-> "net", status |-> 0, err |-> err,
     text |-> None, parses |-> FALSE, choices |-> <<>>]

SuccessOutcomes ==
    {HttpOk(FALSE, <<>>),                       \* not a chat completion
     HttpOk(TRUE, <<>>),                        \* no choices
     HttpOk(TRUE, <<None>>),                    \* content: null
     HttpOk(TRUE, <<Some("")>>),                \* content: ""
     HttpOk(TRUE, <<Some(""), Some("second")>>), \* only the second has content
     HttpOk(TRUE, <<Some(" ")>>),               \* content of whitespace only
     HttpOk(TRUE, <<Some("answer")>>)}

FailureOutcomes ==
    {HttpFail(404, Some("not found")),
     HttpFail(429, Some("slow down")),
     HttpFail(500, Some("boom")),
     HttpFail(503, None)}

(* reqwest::Error, by what is_timeout / is_connect / is_request answer *)
ErrorKinds == {"timeout", "connect", "request", "builder"}

is_timeout(err) == err = "timeout"

is_connect(err) == err = "connect"

is_request(err) == err \in {"request", "timeout", "connect"}

is_retryable_request_error_All(err) == TRUE

is_retryable_request_error(err) ==
    is_timeout(err) \/ is_connect(err) \/ is_request(err)

----------------------------------------------------------------------------
(* Bounds of specification Spec *)

MaxRetries == 2

MaxCalls == 4

RetriesSamples == {N(k) : k \in 0..MaxRetries} \cup {U32_MAX}

DelaySamples == {N(200), N(20000), N(40000)}

KeyValues == {None, Some(""), Some("sk-live")}

NoResult == [tag |-> "none", from |-> 0, status |-> 0, body |-> "", source |-> ""]

Ok(from) == [tag |-> "Ok", from |-> from, status |-> 0, body |-> "", source |-> ""]

Api(from, status, body) ==
    [tag |-> "Api", from |-> from, status |-> status, body |-> body, source |-> ""]

Request(from, source) ==
    [tag |-> "Request", from |-> from, status |-> 0, body |-> "", source |-> source]

IdlePure ==
    /\ st_pc = "idle" /\ st_status = 0 /\ st_result = FALSE
    /\ dl_pc = "idle" /\ dl_attempt = <<>> /\ dl_base = <<>> /\ dl_result = <<>>

IdleAsk ==
    /\ pc = "idle"
    /\ provider = "Openai"
    /\ env_keys = [k \in KeyEnvs |-> None]
    /\ env_reads = {}
    /\ options = [retries |-> <<>>, retry_delay_ms |-> N(500)]
    /\ adapter = None
    /\ api_key = ""
    /\ ask_result = None
    /\ max_attempts = <<>> /\ attempt = <<>> /\ exec_result = NoResult
    /\ inflight = {} /\ calls = 0 /\ outcomes = <<>> /\ sleeps = <<>>

IdleRun ==
    /\ stdin = None /\ main_prompt = None /\ prompt = None /\ messages = None
    /\ stdout = <<>> /\ stderr = <<>> /\ saved = None
    /\ argv_rest = {} /\ exit_code = None

IdleResolve ==
    /\ IdleRun
    /\ cli = <<>> /\ env_vars = <<>> /\ config_file = <<>>
    /\ rs_pc = "idle"
    /\ load_locals = None /\ run_profile = None
    /\ resolved = <<>> /\ run_error = None

(* provider::ask is called with the resolved provider and options *)
Init ==
    /\ IdlePure
    /\ IdleResolve
    /\ pc = "ask"
    /\ provider \in Providers
    /\ env_keys \in [KeyEnvs -> KeyValues]
    /\ env_reads = {}
    /\ options \in [retries : RetriesSamples, retry_delay_ms : DelaySamples]
    /\ adapter = None
    /\ api_key = ""
    /\ ask_result = None
    /\ max_attempts = <<>> /\ attempt = <<>> /\ exec_result = NoResult
    /\ inflight = {} /\ calls = 0 /\ outcomes = <<>> /\ sleeps = <<>>

(* provider::ask: match provider *)
Dispatch ==
    /\ pc = "ask"
    /\ adapter' = Some(provider)
    /\ pc' = "adapter"
    /\ UNCHANGED <<provider, env_keys, env_reads, options, api_key, ask_result>>
    /\ UNCHANGED <<pureVars, resolveVars, execVars, netVars, runVars>>

(* ask_messages: env::var(key_env), then the call of the executor *)
ReadApiKey ==
    /\ pc = "adapter"
    /\ LET key_env == api_key_env(adapter[1])
           value   == env_keys[key_env]
       IN  IF value = None
           THEN /\ ask_result' = Some([tag |-> "MissingApiKey", key_env |-> key_env,
                                       provider |-> adapter[1], content |-> "",
                                       status |-> 0, body |-> "", source |-> ""])
                /\ pc' = "returned"
                /\ UNCHANGED api_key
           ELSE /\ api_key' = value[1]
                /\ pc' = "enter"
                /\ UNCHANGED ask_result
    /\ env_reads' = env_reads \cup {[name |-> api_key_env(adapter[1]), use |-> "value"]}
    /\ UNCHANGED <<provider, env_keys, options, adapter>>
    /\ UNCHANGED <<pureVars, resolveVars, execVars, netVars, runVars>>

max_attempts_of_OffByOne(retries) == saturating_add(retries, N(2))

max_attempts_of(retries) == saturating_add(retries, N(1))

(* send_chat_request_with_retry, up to the loop *)
EnterExecutor ==
    /\ pc = "enter"
    /\ max_attempts' = max_attempts_of(options.retries)
    /\ attempt' = N(0)
    /\ pc' = "Attempting"
    /\ UNCHANGED <<provider, env_keys, env_reads, options, adapter, api_key, ask_result>>
    /\ UNCHANGED <<exec_result, pureVars, resolveVars, netVars, runVars>>

SendGuard_Hedged == pc \in {"Attempting", "Awaiting"}

SendGuard == pc = "Attempting"

(* the top of the loop: build the request and send it *)
SendRequest ==
    /\ SendGuard
    /\ calls < MaxCalls
    /\ inflight' = inflight \cup
           {[url |-> CHAT_COMPLETIONS_URL(adapter[1]), bearer |-> api_key, call |-> calls + 1]}
    /\ calls' = calls + 1
    /\ pc' = "Awaiting"
    /\ UNCHANGED <<provider, env_keys, env_reads, options, adapter, api_key, ask_result>>
    /\ UNCHANGED <<execVars, pureVars, resolveVars, outcomes, sleeps, runVars>>

Answered(call) == {r \in inflight : r.call # call}

(* Ok(response) with a success status *)
ReceiveSuccess ==
    /\ pc = "Awaiting"
    /\ \E o \in SuccessOutcomes :
        /\ is_success(o.status)
        /\ outcomes' = Append(outcomes, o)
        /\ inflight' = Answered(calls)
        /\ exec_result' = Ok(calls)
        /\ pc' = "Done"
    /\ UNCHANGED <<provider, env_keys, env_reads, options, adapter, api_key, ask_result>>
    /\ UNCHANGED <<max_attempts, attempt, pureVars, resolveVars, calls, sleeps, runVars>>

unwrap_or_default(text) == unwrap_or(text, "")

Failure_First(o) ==
    LET first == IF outcomes = <<>> THEN o ELSE outcomes[1]
    IN  IF first.kind = "http"
        THEN Api(1, first.status, unwrap_or_default(first.text))
        ELSE Request(1, first.err)

Failure(o) ==
    IF o.kind = "http"
    THEN Api(calls, o.status, unwrap_or_default(o.text))
    ELSE Request(calls, o.err)

(* the two failure arms, were the sleep taken before the budget is tested *)
Classify_SleepFirst(o, retryable) ==
    /\ outcomes' = Append(outcomes, o)
    /\ inflight' = Answered(calls)
    /\ IF ~retryable
       THEN /\ exec_result' = Failure(o)
            /\ pc' = "Failed"
            /\ UNCHANGED sleeps
       ELSE \E next \in add_u32(attempt, N(1)) :
               IF next.panic
               THEN /\ pc' = "Panicked"
                    /\ UNCHANGED <<exec_result, sleeps>>
               ELSE IF BigLt(next.v, max_attempts)
               THEN /\ sleeps' = Append(sleeps, retry_delay(attempt, options.retry_delay_ms))
                    /\ pc' = "Backoff"
                    /\ UNCHANGED exec_result
               ELSE /\ exec_result' = Failure(o)
                    /\ pc' = "Failed"
                    /\ sleeps' = Append(sleeps, retry_delay(attempt, options.retry_delay_ms))
    /\ UNCHANGED <<provider, env_keys, env_reads, options, adapter, api_key, ask_result>>
    /\ UNCHANGED <<max_attempts, attempt, pureVars, resolveVars, calls, runVars>>

(* the two failure arms: classify, then back off or return the failure *)
Classify(o, retryable) ==
    /\ outcomes' = Append(outcomes, o)
    /\ inflight' = Answered(calls)
    /\ IF ~retryable
       THEN /\ exec_result' = Failure(o)
            /\ pc' = "Failed"
            /\ UNCHANGED sleeps
       ELSE \E next \in add_u32(attempt, N(1)) :
               IF next.panic
               THEN /\ pc' = "Panicked"
                    /\ UNCHANGED <<exec_result, sleeps>>
               ELSE IF BigLt(next.v, max_attempts)
               THEN /\ sleeps' = Append(sleeps, retry_delay(attempt, options.retry_delay_ms))
                    /\ pc' = "Backoff"
                    /\ UNCHANGED exec_result
               ELSE /\ exec_result' = Failure(o)
                    /\ pc' = "Failed"
                    /\ UNCHANGED sleeps
    /\ UNCHANGED <<provider, env_keys, env_reads, options, adapter, api_key, ask_result>>
    /\ UNCHANGED <<max_attempts, attempt, pureVars, resolveVars, calls, runVars>>

(* Ok(response) with another status *)
ReceiveFailureStatus ==
    /\ pc = "Awaiting"
    /\ \E o \in FailureOutcomes :
        /\ ~is_success(o.status)
        /\ Classify(o, is_retryable_status(o.status))

(* Err(source) *)
ReceiveError ==
    /\ pc = "Awaiting"
    /\ \E e \in ErrorKinds : Classify(NetErr(e), is_retryable_request_error(e))

(* the sleep is over, were attempt left as it is *)
WakeUp_NoIncrement ==
    /\ pc = "Backoff"
    /\ \E next \in add_u32(attempt, N(1)) :
        IF next.panic
        THEN pc' = "Panicked" /\ UNCHANGED attempt
        ELSE pc' = "Attempting" /\ UNCHANGED attempt
    /\ UNCHANGED <<provider, env_keys, env_reads, options, adapter, api_key, ask_result>>
    /\ UNCHANGED <<max_attempts, exec_result, pureVars, resolveVars, netVars, runVars>>

(* the sleep is over, were attempt advanced by two *)
WakeUp_SkipOne ==
    /\ pc = "Backoff"
    /\ pc' = "Attempting"
    /\ attempt' = BigAdd(attempt, N(2))
    /\ UNCHANGED <<provider, env_keys, env_reads, options, adapter, api_key, ask_result>>
    /\ UNCHANGED <<max_attempts, exec_result, pureVars, resolveVars, netVars, runVars>>

(* the sleep is over: attempt += 1; continue *)
WakeUp ==
    /\ pc = "Backoff"
    /\ \E next \in add_u32(attempt, N(1)) :
        IF next.panic
        THEN pc' = "Panicked" /\ UNCHANGED attempt
        ELSE pc' = "Attempting" /\ attempt' = next.v
    /\ UNCHANGED <<provider, env_keys, env_reads, options, adapter, api_key, ask_result>>
    /\ UNCHANGED <<max_attempts, exec_result, pureVars, resolveVars, netVars, runVars>>

(* ask_messages: map_err of the executor's failure *)
MapFailure ==
    /\ pc = "Failed"
    /\ ask_result' = Some([tag |-> exec_result.tag, key_env |-> "",
                           provider |-> adapter[1], content |-> "",
                           status |-> exec_result.status, body |-> exec_result.body,
                           source |-> exec_result.source])
    /\ pc' = "returned"
    /\ UNCHANGED <<provider, env_keys, env_reads, options, adapter, api_key>>
    /\ UNCHANGED <<execVars, pureVars, resolveVars, netVars, runVars>>

(* body.choices.first().and_then(content).filter(!is_empty), without the filter *)
first_content_Unfiltered(choices) ==
    IF choices = <<>> THEN None ELSE Head(choices)

(* body.choices.first().and_then(|choice| content).filter(|c| !c.is_empty()) *)
first_content(choices) ==
    LET first == IF choices = <<>> THEN None ELSE Head(choices)
    IN  IF first # None /\ first[1] # "" THEN first ELSE None

(* ask_messages, were a body that does not decode sent for again while the
   budget lasts *)
ParseResponse_RetryDecode ==
    /\ pc = "Done"
    /\ LET response == outcomes[exec_result.from]
           content  == first_content(response.choices)
           result(tag, c, src) ==
               [tag |-> tag, key_env |-> "", provider |-> adapter[1], content |-> c,
                status |-> 0, body |-> "", source |-> src]
       IN  IF ~response.parses /\ BigLt(BigAdd(attempt, N(1)), max_attempts)
           THEN /\ pc' = "Attempting"
                /\ UNCHANGED ask_result
           ELSE /\ ask_result' =
                    IF ~response.parses THEN Some(result("Request", "", "decode"))
                    ELSE IF content = None THEN Some(result("EmptyResponse", "", ""))
                    ELSE Some(result("Ok", content[1], ""))
                /\ pc' = "returned"
    /\ UNCHANGED <<provider, env_keys, env_reads, options, adapter, api_key>>
    /\ UNCHANGED <<execVars, pureVars, resolveVars, netVars, runVars>>

(* ask_messages: response.json(), then the first choice's content *)
ParseResponse ==
    /\ pc = "Done"
    /\ LET response == outcomes[exec_result.from]
           content  == first_content(response.choices)
           result(tag, c, src) ==
               [tag |-> tag, key_env |-> "", provider |-> adapter[1], content |-> c,
                status |-> 0, body |-> "", source |-> src]
       IN  ask_result' =
               IF ~response.parses THEN Some(result("Request", "", "decode"))
               ELSE IF content = None THEN Some(result("EmptyResponse", "", ""))
               ELSE Some(result("Ok", content[1], ""))
    /\ pc' = "returned"
    /\ UNCHANGED <<provider, env_keys, env_reads, options, adapter, api_key>>
    /\ UNCHANGED <<execVars, pureVars, resolveVars, netVars, runVars>>

Next ==
    \/ Dispatch
    \/ ReadApiKey
    \/ EnterExecutor
    \/ SendRequest
    \/ ReceiveSuccess
    \/ ReceiveFailureStatus
    \/ ReceiveError
    \/ WakeUp
    \/ MapFailure
    \/ ParseResponse

Spec == Init /\ [][Next]_vars

(* Specification SpecExecutor: send_chat_request_with_retry alone, every call
   and every sleep returning.  It starts at the call with a budget that
   MaxCalls attempts can spend, or, for the budgets near u32::MAX, at the top
   of the loop in one of its last MaxCalls passes. *)

(* the retries whose budget MaxCalls attempts cannot spend from the call *)
LargeRetries == {U32_MAX, BigSub(U32_MAX, N(1))}

InitExecutor ==
    /\ IdlePure
    /\ IdleResolve
    /\ provider \in Providers
    /\ adapter = Some(provider)
    /\ env_keys = [k \in KeyEnvs |-> Some("sk-live")]
    /\ env_reads = {[name |-> api_key_env(provider), use |-> "value"]}
    /\ api_key = "sk-live"
    /\ \E d \in DelaySamples :
          \/ \E r \in 0..MaxRetries :
                /\ options = [retries |-> N(r), retry_delay_ms |-> d]
                /\ pc = "enter"
                /\ max_attempts = <<>> /\ attempt = <<>>
          \/ \E r \in LargeRetries, left \in 1..MaxCalls :
                /\ options = [retries |-> r, retry_delay_ms |-> d]
                /\ pc = "Attempting"
                /\ max_attempts = max_attempts_of(r)
                /\ attempt = BigSub(max_attempts_of(r), N(left))
    /\ ask_result = None
    /\ exec_result = NoResult
    /\ inflight = {} /\ calls = 0 /\ outcomes = <<>> /\ sleeps = <<>>

NextExecutor ==
    \/ EnterExecutor
    \/ SendRequest
    \/ ReceiveSuccess
    \/ ReceiveFailureStatus
    \/ ReceiveError
    \/ WakeUp

SpecExecutor == InitExecutor /\ [][NextExecutor]_vars /\ WF_vars(NextExecutor)

----------------------------------------------------------------------------
(* Strings that the code trims, lower-cases or parses are sequences of
   one-character strings. *)

Whitespace == {" ", "\t", "\n"}

RECURSIVE trim_start(_)
trim_start(s) ==
    IF s # <<>> /\ Head(s) \in Whitespace THEN trim_start(Tail(s)) ELSE s

RECURSIVE trim_end(_)
trim_end(s) ==
    IF s # <<>> /\ s[Len(s)] \in Whitespace
    THEN trim_end(SubSeq(s, 1, Len(s) - 1))
    ELSE s

trim(s) == trim_end(trim_start(s))

UpperCase == <<"A", "B", "C", "D", "E", "F", "G", "H", "I", "J", "K", "L", "M", "N", "O", "P", "Q", "R", "S", "T", "U", "V", "W", "X", "Y", "Z">>

LowerCase == <<"a", "b", "c", "d", "e", "f", "g", "h", "i", "j", "k", "l", "m", "n", "o", "p", "q", "r", "s", "t", "u", "v", "w", "x", "y", "z">>

lower_char(c) ==
    IF \E i \in DOMAIN UpperCase : UpperCase[i] = c
    THEN LowerCase[CHOOSE i \in DOMAIN UpperCase : UpperCase[i] = c]
    ELSE c

to_ascii_lowercase(s) == [i \in DOMAIN s |-> lower_char(s[i])]

Digits == <<"0", "1", "2", "3", "4", "5", "6", "7", "8", "9">>

is_digit(c) == \E i \in DOMAIN Digits : Digits[i] = c

digit_value(c) == (CHOOSE i \in DOMAIN Digits : Digits[i] = c) - 1

(* Result<T, E>: ok, with the value v or the error err *)
Good(v) == [ok |-> TRUE, v |-> v, err |-> <<>>]

Bad(err) == [ok |-> FALSE, v |-> <<>>, err |-> err]

(* an error message: its text, the place it names, the raw value it quotes *)
Message(msg, place, raw) == [msg |-> msg, place |-> place, raw |-> raw]

RECURSIVE digits_value(_, _)
digits_value(s, acc) ==
    IF s = <<>> THEN acc
    ELSE digits_value(Tail(s), BigAdd(MulLimb(acc, 10), N(digit_value(Head(s)))))

(* str::parse::<u32> and str::parse::<u64>: an optional '+', then one or more
   digits, an error when the value exceeds the type's maximum *)
parse_unsigned(s, max) ==
    LET body == IF s # <<>> /\ Head(s) = "+" THEN Tail(s) ELSE s
    IN  IF body = <<>> \/ \E i \in DOMAIN body : ~is_digit(body[i])
        THEN Bad(Message("invalid digit", <<>>, s))
        ELSE LET v == digits_value(body, <<>>)
             IN  IF BigLt(max, v) THEN Bad(Message("number too large", <<>>, s)) ELSE Good(v)

parse_u32(s) == parse_unsigned(s, U32_MAX)

parse_u64(s) == parse_unsigned(s, U64_MAX)

(* An f32 is NaN or a number of tenths: the temperatures of the model are
   decimal literals with at most one fractional digit. *)
F32(tenths) == [nan |-> FALSE, tenths |-> tenths]

NaN == [nan |-> TRUE, tenths |-> 0]

RECURSIVE trim_zeros(_)
trim_zeros(s) == IF s # <<>> /\ Head(s) = "0" THEN trim_zeros(Tail(s)) ELSE s

(* str::parse::<f32> on the literals above: NaN, or an optional sign, digits,
   and an optional '.' followed by one digit; a whole part of 10000 or more is
   kept as 10000, far outside every range the code tests *)
parse_f32(s) ==
    LET negative == s # <<>> /\ Head(s) = "-"
        body     == IF s # <<>> /\ Head(s) \in {"-", "+"} THEN Tail(s) ELSE s
        dots     == {i \in DOMAIN body : body[i] = "."}
        whole    == IF dots = {} THEN body
                    ELSE SubSeq(body, 1, (CHOOSE i \in dots : TRUE) - 1)
        frac     == IF dots = {} THEN <<>>
                    ELSE SubSeq(body, (CHOOSE i \in dots : TRUE) + 1, Len(body))
        digits   == whole \o frac
    IN  IF s = <<"N", "a", "N">> THEN Good(NaN)
        ELSE IF \/ Cardinality(dots) > 1
                \/ digits = <<>>
                \/ Len(frac) > 1
                \/ \E i \in DOMAIN digits : ~is_digit(digits[i])
        THEN Bad(Message("invalid float literal", <<>>, s))
        ELSE LET w == IF Len(trim_zeros(whole)) > 4 THEN Base
                      ELSE Small(digits_value(whole, <<>>))
                 f == IF frac = <<>> THEN 0 ELSE digit_value(frac[1])
                 t == 10 * w + f
             IN  Good(F32(IF negative THEN 0 - t ELSE t))

(* (0.0..=2.0).contains(&value) *)
temperature_in_range_NoUpperBound(value) == ~value.nan /\ 0 <= value.tenths

temperature_in_range(value) == ~value.nan /\ 0 <= value.tenths /\ value.tenths <= 20

----------------------------------------------------------------------------
(* config.rs *)

S_openai == <<"o", "p", "e", "n", "a", "i">>

S_fireworks == <<"f", "i", "r", "e", "w", "o", "r", "k", "s">>

S_text == <<"t", "e", "x", "t">>

S_json == <<"j", "s", "o", "n">>

(* ProfileConfig::default(), ProviderDefaultsConfig::default() *)
DefaultProfile ==
    [provider |-> None, model |-> None, system |-> None, temperature |-> None,
     max_tokens |-> None, timeout |-> None, retries |-> None, retry_delay |-> None,
     output |-> None, show_usage |-> None]

DefaultDefaults ==
    [model |-> None, system |-> None, temperature |-> None,
     max_tokens |-> None, timeout |-> None, retries |-> None, retry_delay |-> None,
     output |-> None, show_usage |-> None]

normalized_provider_value(raw) ==
    LET v == to_ascii_lowercase(trim(raw))
    IN  IF v = S_openai THEN Some("openai")
        ELSE IF v = S_fireworks THEN Some("fireworks")
        ELSE None

(* the first check of validate_profile_fields that fails, None when none does *)
validate_profile_fields(section_path, fields) ==
    IF fields.temperature # None /\ ~temperature_in_range(fields.temperature[1])
    THEN Some(Message("Invalid value", Append(section_path, "temperature"), <<>>))
    ELSE IF fields.max_tokens # None /\ fields.max_tokens[1] = N(0)
    THEN Some(Message("Invalid value", Append(section_path, "max_tokens"), <<>>))
    ELSE IF fields.timeout # None /\ fields.timeout[1] = N(0)
    THEN Some(Message("Invalid value", Append(section_path, "timeout"), <<>>))
    ELSE IF fields.retry_delay # None /\ fields.retry_delay[1] = N(0)
    THEN Some(Message("Invalid value", Append(section_path, "retry_delay"), <<>>))
    ELSE IF /\ fields.output # None
            /\ to_ascii_lowercase(trim(fields.output[1])) \notin {S_text, S_json}
    THEN Some(Message("Invalid value", Append(section_path, "output"), <<>>))
    ELSE None

validate_profile(name, profile) ==
    IF profile.provider # None /\ normalized_provider_value(profile.provider[1]) = None
    THEN Some(Message("Invalid profile provider", <<"profiles", name, "provider">>,
                      to_ascii_lowercase(trim(profile.provider[1]))))
    ELSE validate_profile_fields(<<"profiles", name>>, profile)

(* validate_config_file walks two HashMaps and returns the first error it
   meets: the errors it can return, in whatever order the maps are walked.
   A provider section is met before every profile. *)
provider_section_errors(config) ==
    IF config.providers = None THEN {}
    ELSE LET providers == config.providers[1]
         IN  {e \in {IF normalized_provider_value(k) = None
                     THEN Some(Message("Invalid provider section", <<"providers">>, k))
                     ELSE IF providers[k].defaults = None THEN None
                     ELSE validate_profile_fields(
                              <<"providers", normalized_provider_value(k)[1], "defaults">>,
                              providers[k].defaults[1]) : k \in DOMAIN providers}
                 : e # None}

profile_errors(config) ==
    IF config.profiles = None THEN {}
    ELSE LET profiles == config.profiles[1]
         IN  {e \in {validate_profile(n, profiles[n]) : n \in DOMAIN profiles} : e # None}

(* validate_config_file, were the profiles not walked *)
validate_config_file_ProvidersOnly(config) == provider_section_errors(config)

validate_config_file(config) ==
    IF provider_section_errors(config) # {} THEN provider_section_errors(config)
    ELSE profile_errors(config)

(* load_and_validate_config_file: the results it can give *)
load_and_validate_config_file(f) ==
    IF f.status = "missing" THEN {Bad(Message("Failed to read config file", <<>>, <<>>))}
    ELSE IF f.status = "unparsable" THEN {Bad(Message("Failed to parse config file", <<>>, <<>>))}
    ELSE LET config == [profiles |-> f.profiles, providers |-> f.providers]
         IN  IF validate_config_file(config) # {}
             THEN {Bad(e[1]) : e \in validate_config_file(config)}
             ELSE {Good(config)}

(* profile_from_config, were a file without a profiles table taken to
   declare every name with nothing set *)
profile_from_config_Lenient(config, name) ==
    IF config.profiles = None THEN Good(DefaultProfile)
    ELSE IF name \notin DOMAIN config.profiles[1]
    THEN Bad(Message("Profile not found in config file", <<name>>, <<>>))
    ELSE Good(config.profiles[1][name])

profile_from_config(config, name) ==
    IF config.profiles = None
    THEN Bad(Message("Config file does not contain a [profiles] section.", <<>>, <<>>))
    ELSE IF name \notin DOMAIN config.profiles[1]
    THEN Bad(Message("Profile not found in config file", <<name>>, <<>>))
    ELSE Good(config.profiles[1][name])

(* providers.iter().find_map(..): the defaults of the first section, in the
   map's iteration order, whose name normalizes to the provider and that has
   defaults; every order is possible *)
provider_defaults_for(config, p) ==
    IF config.providers = None THEN {None}
    ELSE LET providers == config.providers[1]
             found == {k \in DOMAIN providers :
                          /\ normalized_provider_value(k) = Some(p)
                          /\ providers[k].defaults # None}
         IN  IF found = {} THEN {None} ELSE {providers[k].defaults : k \in found}

merge_provider_defaults(defaults_opt, profile) ==
    LET defaults == unwrap_or(defaults_opt, DefaultDefaults)
    IN  [provider    |-> profile.provider,
         model       |-> or(profile.model, defaults.model),
         system      |-> or(profile.system, defaults.system),
         temperature |-> or(profile.temperature, defaults.temperature),
         max_tokens  |-> or(profile.max_tokens, defaults.max_tokens),
         timeout     |-> or(profile.timeout, defaults.timeout),
         retries     |-> or(profile.retries, defaults.retries),
         retry_delay |-> or(profile.retry_delay, defaults.retry_delay),
         output      |-> or(profile.output, defaults.output),
         show_usage  |-> or(profile.show_usage, defaults.show_usage)]

(* validate_config: the results it can give, Ok(path) or its error *)
validate_config(f, profile_name) ==
    UNION {IF ~loaded.ok THEN {Bad(loaded.err)}
           ELSE IF profile_name # None /\ ~profile_from_config(loaded.v, profile_name[1]).ok
           THEN {Bad(profile_from_config(loaded.v, profile_name[1]).err)}
           ELSE {Good(<<>>)}
             : loaded \in load_and_validate_config_file(f)}

(* load_profile: every (selected profile, provider defaults, merged profile)
   it can return, or its error *)
load_profile(f, name) ==
    UNION {IF ~loaded.ok THEN {Bad(loaded.err)}
           ELSE LET found == profile_from_config(loaded.v, name)
                IN  IF ~found.ok THEN {Bad(found.err)}
                    ELSE LET profile == found.v
                             key == IF profile.provider = None THEN None
                                    ELSE normalized_provider_value(profile.provider[1])
                             choices == IF key = None THEN {None}
                                        ELSE provider_defaults_for(loaded.v, key[1])
                         IN  {Good([profile |-> profile,
                                    provider_defaults |-> d,
                                    merged |-> merge_provider_defaults(d, profile)])
                                 : d \in choices}
             : loaded \in load_and_validate_config_file(f)}

----------------------------------------------------------------------------
(* bin/mpask.rs: the resolvers.  cli_* is the command line's value, e the
   environment (variable name -> Option<String>), profile the ProfileConfig
   that resolve_profile returned. *)

EnvNames ==
    {"MP_PROVIDER", "MP_MODEL", "MP_TEMPERATURE", "MP_MAX_TOKENS",
     "MP_TIMEOUT", "MP_RETRIES", "MP_RETRY_DELAY"}

parse_provider_value(raw, source) ==
    LET v == to_ascii_lowercase(trim(raw))
    IN  IF v = S_openai THEN Good("Openai")
        ELSE IF v = S_fireworks THEN Good("Fireworks")
        ELSE Bad(Message("Invalid provider", <<source>>, v))

resolve_provider(cli_provider, e, profile) ==
    IF cli_provider # None THEN Good(cli_provider[1])
    ELSE IF e["MP_PROVIDER"] # None
    THEN parse_provider_value(e["MP_PROVIDER"][1], "MP_PROVIDER")
    ELSE IF profile.provider # None
    THEN parse_provider_value(profile.provider[1], "profile provider")
    ELSE Good("Openai")

resolve_model(cli_model, e, profile) ==
    IF cli_model # None /\ trim(cli_model[1]) # <<>>
    THEN Good(trim(cli_model[1]))
    ELSE IF e["MP_MODEL"] # None /\ trim(e["MP_MODEL"][1]) # <<>>
    THEN Good(trim(e["MP_MODEL"][1]))
    ELSE IF profile.model # None /\ trim(profile.model[1]) # <<>>
    THEN Good(trim(profile.model[1]))
    ELSE Bad(Message("No model provided. Use --model or set MP_MODEL.", <<>>, <<>>))

resolve_temperature(cli_temperature, e, profile) ==
    LET parsed == parse_f32(trim(e["MP_TEMPERATURE"][1]))
        temperature ==
            IF cli_temperature # None THEN cli_temperature
            ELSE IF e["MP_TEMPERATURE"] # None THEN Some(parsed.v)
            ELSE profile.temperature
    IN  IF cli_temperature = None /\ e["MP_TEMPERATURE"] # None /\ ~parsed.ok
        THEN Bad(Message("Invalid MP_TEMPERATURE", <<"MP_TEMPERATURE">>, e["MP_TEMPERATURE"][1]))
        ELSE IF temperature # None /\ ~temperature_in_range(temperature[1])
        THEN Bad(Message("Invalid temperature", <<>>, <<>>))
        ELSE Good(temperature)

resolve_max_tokens(cli_max_tokens, e, profile) ==
    LET parsed == parse_u32(trim(e["MP_MAX_TOKENS"][1]))
        max_tokens ==
            IF cli_max_tokens # None THEN cli_max_tokens
            ELSE IF e["MP_MAX_TOKENS"] # None THEN Some(parsed.v)
            ELSE profile.max_tokens
    IN  IF cli_max_tokens = None /\ e["MP_MAX_TOKENS"] # None /\ ~parsed.ok
        THEN Bad(Message("Invalid MP_MAX_TOKENS", <<"MP_MAX_TOKENS">>, e["MP_MAX_TOKENS"][1]))
        ELSE IF max_tokens # None /\ max_tokens[1] = N(0)
        THEN Bad(Message("Invalid max tokens 0. Must be > 0.", <<>>, <<>>))
        ELSE Good(max_tokens)

resolve_timeout(cli_timeout, e, profile) ==
    LET parsed == parse_u64(trim(e["MP_TIMEOUT"][1]))
        timeout ==
            IF cli_timeout # None THEN cli_timeout
            ELSE IF e["MP_TIMEOUT"] # None THEN Some(parsed.v)
            ELSE profile.timeout
    IN  IF cli_timeout = None /\ e["MP_TIMEOUT"] # None /\ ~parsed.ok
        THEN Bad(Message("Invalid MP_TIMEOUT", <<"MP_TIMEOUT">>, e["MP_TIMEOUT"][1]))
        ELSE IF timeout # None /\ timeout[1] = N(0)
        THEN Bad(Message("Invalid timeout 0. Must be > 0 seconds.", <<>>, <<>>))
        ELSE Good(timeout)

resolve_retries(cli_retries, e, profile) ==
    LET parsed == parse_u32(trim(e["MP_RETRIES"][1]))
    IN  IF cli_retries # None THEN Good(cli_retries[1])
        ELSE IF e["MP_RETRIES"] # None
        THEN (IF parsed.ok THEN Good(parsed.v)
              ELSE Bad(Message("Invalid MP_RETRIES", <<"MP_RETRIES">>, e["MP_RETRIES"][1])))
        ELSE Good(unwrap_or(profile.retries, N(0)))

DEFAULT_RETRY_DELAY_MS == 500

resolve_retry_delay(cli_retry_delay, e, profile) ==
    LET parsed == parse_u64(trim(e["MP_RETRY_DELAY"][1]))
        delay ==
            IF cli_retry_delay # None THEN cli_retry_delay[1]
            ELSE IF e["MP_RETRY_DELAY"] # None THEN parsed.v
            ELSE unwrap_or(profile.retry_delay, N(DEFAULT_RETRY_DELAY_MS))
    IN  IF cli_retry_delay = None /\ e["MP_RETRY_DELAY"] # None /\ ~parsed.ok
        THEN Bad(Message("Invalid MP_RETRY_DELAY", <<"MP_RETRY_DELAY">>, e["MP_RETRY_DELAY"][1]))
        ELSE IF delay = N(0)
        THEN Bad(Message("Invalid retry delay 0. Must be > 0 milliseconds.", <<>>, <<>>))
        ELSE Good(delay)

parse_output_format(raw) ==
    LET v == to_ascii_lowercase(trim(raw))
    IN  IF v = S_text THEN Good("Text")
        ELSE IF v = S_json THEN Good("Json")
        ELSE Bad(Message("Invalid profile output", <<>>, v))

(* resolve_output_format, were --output looked at before --json *)
resolve_output_format_OutputFirst(output, json, profile) ==
    IF output # None THEN Good(output[1])
    ELSE IF json THEN Good("Json")
    ELSE IF profile.output # None THEN parse_output_format(profile.output[1])
    ELSE Good("Text")

resolve_output_format(output, json, profile) ==
    IF json THEN Good("Json")
    ELSE IF output # None THEN Good(output[1])
    ELSE IF profile.output # None THEN parse_output_format(profile.output[1])
    ELSE Good("Text")

resolve_show_usage(cli_show_usage, profile) ==
    IF cli_show_usage THEN TRUE ELSE unwrap_or(profile.show_usage, FALSE)

resolve_system(cli_system, profile) ==
    IF is_some(cli_system) THEN cli_system ELSE profile.system

(* resolve_profile, were the profile named default loaded when none is named *)
resolve_profile_ImplicitDefault(profile_name, f) ==
    load_profile(f, unwrap_or(profile_name, "default"))

(* resolve_profile: what it can return *)
resolve_profile(profile_name, f) ==
    IF profile_name = None
    THEN {Good([profile |-> DefaultProfile, provider_defaults |-> None,
                merged |-> DefaultProfile])}
    ELSE load_profile(f, profile_name[1])

----------------------------------------------------------------------------
(* Specification SpecResolve: run() resolves the configuration, one
   statement at a time (bin/mpask.rs l.184-195).

   An invocation is a command line, an environment and a config file.  One
   field is under study in each invocation: every tier may or may not give
   it a value, and each tier gives a different one. *)

StudiedFields ==
    {"model", "system", "temperature", "max_tokens", "timeout", "retries",
     "retry_delay", "output", "show_usage"}

Tiers == {"cli", "env", "profile", "openai", "fireworks"}

(* clap's Cli with no flag and no argument given *)
NoFlags ==
    [profile |-> None, provider |-> None, model |-> None, temperature |-> None,
     max_tokens |-> None, timeout |-> None, retries |-> None, retry_delay |-> None,
     output |-> None, json |-> FALSE, show_usage |-> FALSE, verbose |-> FALSE,
     dry_run |-> FALSE, fail_on_empty |-> FALSE, save |-> None, system |-> None,
     prompt |-> None, postprompt |-> None, input |-> None]

CliSample ==
    [model |-> <<" ", "g", "p", "t", "-", "c", " ">>, system |-> <<"s", "y", "s", "-", "c">>, temperature |-> F32(12),
     max_tokens |-> N(64), timeout |-> N(33), retries |-> N(5),
     retry_delay |-> N(100), output |-> "Text"]

EnvSample ==
    [model |-> <<"g", "p", "t", "-", "e">>, temperature |-> <<"0", ".", "6">>, max_tokens |-> <<"1", "2", "8">>,
     timeout |-> <<" ", "2", "1", " ">>, retries |-> <<"4">>, retry_delay |-> <<"2", "5", "0">>]

ProfileSample ==
    [model |-> <<"g", "p", "t", "-", "p", " ">>, system |-> <<"s", "y", "s", "-", "p">>, temperature |-> F32(1),
     max_tokens |-> N(256), timeout |-> N(7), retries |-> N(3),
     retry_delay |-> N(700), output |-> <<" ", "J", "S", "O", "N", " ">>, show_usage |-> FALSE]

OpenaiSample ==
    [model |-> <<"g", "p", "t", "-", "o">>, system |-> <<"s", "y", "s", "-", "o">>, temperature |-> F32(3),
     max_tokens |-> N(512), timeout |-> N(15), retries |-> N(2),
     retry_delay |-> N(900), output |-> <<"t", "e", "x", "t">>, show_usage |-> TRUE]

FireworksSample ==
    [model |-> <<"g", "p", "t", "-", "f">>, system |-> <<"s", "y", "s", "-", "f">>, temperature |-> F32(4),
     max_tokens |-> N(1024), timeout |-> N(16), retries |-> N(1),
     retry_delay |-> N(1100), output |-> <<"T", "e", "x", "t">>, show_usage |-> TRUE]

BlankSample == <<" ", " ">>

UnparsableSample == <<"x", "1">>

(* values outside the domain of their field, as a flag or the file gives
   them and as the environment spells them *)
InvalidSample ==
    [temperature |-> F32(25), max_tokens |-> N(0), timeout |-> N(0),
     retry_delay |-> N(0), output |-> <<"x", "m", "l">>]

InvalidEnvSample ==
    [temperature |-> <<"2", ".", "5">>, max_tokens |-> <<"0">>, timeout |-> <<"0">>,
     retry_delay |-> <<"0">>]

(* the variant of an invocation where the tier's value is out of domain *)
BadAt ==
    [cli |-> "bad-cli", env |-> "bad-env", profile |-> "bad-profile",
     openai |-> "bad-openai", fireworks |-> "bad-fireworks"]

BadVariants == {BadAt[t] : t \in DOMAIN BadAt}

(* the section keys of the providers table, as the file writes them *)
OpenaiKey == <<" ", "O", "p", "e", "n", "A", "I", " ">>

FireworksKey == S_fireworks

EnvName(field) ==
    CASE field = "model" -> "MP_MODEL"
      [] field = "temperature" -> "MP_TEMPERATURE"
      [] field = "max_tokens" -> "MP_MAX_TOKENS"
      [] field = "timeout" -> "MP_TIMEOUT"
      [] field = "retries" -> "MP_RETRIES"
      [] field = "retry_delay" -> "MP_RETRY_DELAY"
      [] OTHER -> "none"

(* the value a tier gives to a field: Some(sample) when the tier is present
   for the field under study, and the model everywhere from model_from *)
Given(field, tier, sample, focus, on, model_from, variant) ==
    IF field = focus
    THEN (IF ~on[tier] THEN None
          ELSE IF variant = "blank" /\ field \in {"model", "system"} /\ tier \in {"cli", "env", "profile"}
          THEN Some(BlankSample)
          ELSE IF variant = "unparsable" /\ tier = "env" THEN Some(UnparsableSample)
          ELSE IF variant = BadAt[tier]
          THEN Some(IF tier = "env" THEN InvalidEnvSample[field] ELSE InvalidSample[field])
          ELSE Some(sample[field]))
    ELSE IF field = "model" /\ (tier = model_from \/ tier \in {"openai", "fireworks"})
    THEN Some(sample[field])
    ELSE None

Variants(focus) ==
    CASE focus \in {"model", "system"} -> {"plain", "blank"}
      [] focus \in {"temperature", "max_tokens", "timeout", "retry_delay"}
            -> {"plain", "unparsable"} \cup BadVariants
      [] focus = "retries" -> {"plain", "unparsable"}
      [] focus = "output"
            -> {"plain", "json", BadAt["profile"], BadAt["openai"], BadAt["fireworks"]}
      [] OTHER -> {"plain"}

CliOf(profile_name, cli_provider, focus, on, model_from, variant) ==
    LET g(field) == Given(field, "cli", CliSample, focus, on, model_from, variant)
    IN  [NoFlags EXCEPT
            !.profile     = profile_name,
            !.provider    = cli_provider,
            !.model       = g("model"),
            !.system      = g("system"),
            !.temperature = g("temperature"),
            !.max_tokens  = g("max_tokens"),
            !.timeout     = g("timeout"),
            !.retries     = g("retries"),
            !.retry_delay = g("retry_delay"),
            !.output      = g("output"),
            !.json        = (focus = "output" /\ variant = "json"),
            !.show_usage  = (focus = "show_usage" /\ on["cli"])]

EnvOf(env_provider, focus, on, model_from, variant) ==
    [name \in EnvNames |->
        IF name = "MP_PROVIDER" THEN env_provider
        ELSE LET field == CHOOSE fd \in DOMAIN EnvSample : EnvName(fd) = name
             IN  Given(field, "env", EnvSample, focus, on, model_from, variant)]

FieldsOf(tier, sample, focus, on, model_from, variant) ==
    LET g(field) == Given(field, tier, sample, focus, on, model_from, variant)
    IN  [model       |-> g("model"),
         system      |-> g("system"),
         temperature |-> g("temperature"),
         max_tokens  |-> g("max_tokens"),
         timeout     |-> g("timeout"),
         retries     |-> g("retries"),
         retry_delay |-> g("retry_delay"),
         output      |-> g("output"),
         show_usage  |-> g("show_usage")]

FileOf(profile_provider, focus, on, model_from, variant) ==
    LET fields == FieldsOf("profile", ProfileSample, focus, on, model_from, variant)
        fw == [provider    |-> profile_provider,
               model       |-> fields.model,
               system      |-> fields.system,
               temperature |-> fields.temperature,
               max_tokens  |-> fields.max_tokens,
               timeout     |-> fields.timeout,
               retries     |-> fields.retries,
               retry_delay |-> fields.retry_delay,
               output      |-> fields.output,
               show_usage  |-> fields.show_usage]
        section(k) ==
            IF k = OpenaiKey
            THEN FieldsOf("openai", OpenaiSample, focus, on, model_from, variant)
            ELSE FieldsOf("fireworks", FireworksSample, focus, on, model_from, variant)
    IN  [status    |-> "ok",
         profiles  |-> Some([n \in {"fw"} |-> fw]),
         providers |-> Some([k \in {OpenaiKey, FireworksKey} |->
                                [defaults |-> Some(section(k))]])]

(* the file as it may also be: absent, not TOML, without a profiles table,
   with a profile named default, with an invalid profile that is not the
   selected one, with a providers section of an unknown name, with two
   sections whose keys name the same provider *)
FileKinds ==
    {"plain", "missing", "unparsable", "no-profiles", "with-default",
     "other-bad-temperature", "other-bad-provider", "bad-section-name",
     "twin-sections"}

OtherProfile(kind) ==
    CASE kind = "with-default" ->
            [DefaultProfile EXCEPT !.model = Some(<<"g", "p", "t", "-", "d">>), !.timeout = Some(N(99))]
      [] kind = "other-bad-temperature" ->
            [DefaultProfile EXCEPT !.temperature = Some(F32(25))]
      [] OTHER ->
            [DefaultProfile EXCEPT !.provider = Some(<<"a", "z", "u", "r", "e">>)]

OtherName(kind) == IF kind = "with-default" THEN "default" ELSE "other"

(* the defaults of a second section of OpenAI, under the key openai *)
TwinDefaults == [DefaultDefaults EXCEPT !.timeout = Some(N(77))]

FileAs(kind, file) ==
    CASE kind \in {"missing", "unparsable"} -> [file EXCEPT !.status = kind]
      [] kind = "no-profiles" -> [file EXCEPT !.profiles = None]
      [] kind \in {"with-default", "other-bad-temperature", "other-bad-provider"} ->
            [file EXCEPT !.profiles =
                Some([n \in {"fw", OtherName(kind)} |->
                        IF n = "fw" THEN file.profiles[1]["fw"] ELSE OtherProfile(kind)])]
      [] kind = "bad-section-name" ->
            [file EXCEPT !.providers =
                Some([k \in DOMAIN file.providers[1] \cup {<<"a", "z", "u", "r", "e">>} |->
                        IF k \in DOMAIN file.providers[1] THEN file.providers[1][k]
                        ELSE [defaults |-> None]])]
      [] kind = "twin-sections" ->
            [file EXCEPT !.providers =
                Some([k \in DOMAIN file.providers[1] \cup {S_openai} |->
                        IF k \in DOMAIN file.providers[1] THEN file.providers[1][k]
                        ELSE [defaults |-> Some(TwinDefaults)]])]
      [] OTHER -> file

(* the invocations under study: an out-of-domain value comes with the model
   on the command line, and the file's other kinds and a profile name that
   the file does not declare come with the timeout as the studied field *)
Studied(focus, variant, model_from, profile_name, kind) ==
    /\ variant \in BadVariants => model_from = "cli"
    /\ (kind # "plain" \/ profile_name = Some("nope")) =>
            (focus = "timeout" /\ variant = "plain")

Unbound ==
    [provider |-> None, model |-> None, temperature |-> None, max_tokens |-> None,
     timeout_secs |-> None, retries |-> None, retry_delay_ms |-> None,
     output_format |-> None, show_usage |-> None, system |-> None]

InitResolve ==
    /\ IdlePure
    /\ IdleAsk
    /\ \E focus \in StudiedFields, on \in [Tiers -> BOOLEAN],
          model_from \in {"cli", "profile"},
          profile_name \in {None, Some("fw"), Some("nope")},
          kind \in FileKinds,
          cli_provider \in {None, Some("Fireworks")},
          env_provider \in {None, Some(<<" ", "O", "p", "e", "n", "A", "I", " ">>)},
          profile_provider \in {None, Some(S_openai), Some(<<"F", "i", "r", "e", "w", "o", "r", "k", "s">>)} :
          \E variant \in Variants(focus) :
              /\ Studied(focus, variant, model_from, profile_name, kind)
              /\ cli = CliOf(profile_name, cli_provider, focus, on, model_from, variant)
              /\ env_vars = EnvOf(env_provider, focus, on, model_from, variant)
              /\ config_file =
                    FileAs(kind, FileOf(profile_provider, focus, on, model_from, variant))
    /\ IdleRun
    /\ rs_pc = "profile"
    /\ load_locals = None
    /\ run_profile = None
    /\ resolved = Unbound
    /\ run_error = None

(* let profile = resolve_profile(cli.profile.as_deref())?; *)
ResolveProfile ==
    /\ rs_pc = "profile"
    /\ \E r \in resolve_profile(cli.profile, config_file) :
          IF r.ok
          THEN /\ load_locals' = Some([profile |-> r.v.profile,
                                       provider_defaults |-> r.v.provider_defaults])
               /\ run_profile' = Some(r.v.merged)
               /\ rs_pc' = "provider"
               /\ UNCHANGED run_error
          ELSE /\ run_error' = Some(r.err)
               /\ rs_pc' = "exit"
               /\ UNCHANGED <<load_locals, run_profile>>
    /\ UNCHANGED <<cli, env_vars, config_file, resolved>>
    /\ UNCHANGED <<pureVars, askVars, execVars, netVars, runVars>>

(* let <local> = <r>?; *)
Bind(step, local, r, next) ==
    /\ rs_pc = step
    /\ IF r.ok
       THEN /\ resolved' = [resolved EXCEPT ![local] = Some(r.v)]
            /\ rs_pc' = next
            /\ UNCHANGED run_error
       ELSE /\ run_error' = Some(r.err)
            /\ rs_pc' = "exit"
            /\ UNCHANGED resolved
    /\ UNCHANGED <<cli, env_vars, config_file, load_locals, run_profile>>
    /\ UNCHANGED <<pureVars, askVars, execVars, netVars, runVars>>

ResolveProvider ==
    Bind("provider", "provider",
         resolve_provider(cli.provider, env_vars, run_profile[1]), "model")

ResolveModel ==
    Bind("model", "model",
         resolve_model(cli.model, env_vars, run_profile[1]), "temperature")

ResolveTemperature ==
    Bind("temperature", "temperature",
         resolve_temperature(cli.temperature, env_vars, run_profile[1]), "max_tokens")

ResolveMaxTokens ==
    Bind("max_tokens", "max_tokens",
         resolve_max_tokens(cli.max_tokens, env_vars, run_profile[1]), "timeout")

ResolveTimeout ==
    Bind("timeout", "timeout_secs",
         resolve_timeout(cli.timeout, env_vars, run_profile[1]), "retries")

ResolveRetries ==
    Bind("retries", "retries",
         resolve_retries(cli.retries, env_vars, run_profile[1]), "retry_delay")

ResolveRetryDelay ==
    Bind("retry_delay", "retry_delay_ms",
         resolve_retry_delay(cli.retry_delay, env_vars, run_profile[1]), "output")

ResolveOutputFormat ==
    Bind("output", "output_format",
         resolve_output_format(cli.output, cli.json, run_profile[1]), "show_usage")

ResolveShowUsage ==
    Bind("show_usage", "show_usage",
         Good(resolve_show_usage(cli.show_usage, run_profile[1])), "system")

ResolveSystem ==
    Bind("system", "system",
         Good(resolve_system(cli.system, run_profile[1])), "prompt")

NextResolve ==
    \/ ResolveProfile
    \/ ResolveProvider
    \/ ResolveModel
    \/ ResolveTemperature
    \/ ResolveMaxTokens
    \/ ResolveTimeout
    \/ ResolveRetries
    \/ ResolveRetryDelay
    \/ ResolveOutputFormat
    \/ ResolveShowUsage
    \/ ResolveSystem

SpecResolve == InitResolve /\ [][NextResolve]_vars

----------------------------------------------------------------------------
(* bin/mpask.rs: the prompt and the messages *)

(* in is the standard input: None for a terminal, Some(text) when piped *)
resolve_prompt(cli_prompt, in) ==
    IF cli_prompt # None
    THEN Good([text |-> cli_prompt[1], source |-> "Argument"])
    ELSE IF in = None
    THEN Bad(Message("No prompt provided. Pass an argument or pipe stdin.", <<>>, <<>>))
    ELSE IF trim(in[1]) = <<>>
    THEN Bad(Message("Prompt is empty.", <<>>, <<>>))
    ELSE Good([text |-> trim(in[1]), source |-> "Stdin"])

Separator == <<"\n", "\n">>

(* parts.join(sep) *)
RECURSIVE join(_, _)
join(parts, sep) ==
    IF parts = <<>> THEN <<>>
    ELSE IF Len(parts) = 1 THEN parts[1]
    ELSE parts[1] \o sep \o join(Tail(parts), sep)

compose_prompt(preprompt, main, postprompt) ==
    LET pre  == IF preprompt # None /\ trim(preprompt[1]) # <<>>
                THEN <<preprompt[1]>> ELSE <<>>
        post == IF postprompt # None /\ trim(postprompt[1]) # <<>>
                THEN <<postprompt[1]>> ELSE <<>>
    IN  join(pre \o <<main>> \o post, Separator)

non_empty(value) ==
    IF value # None /\ trim(value[1]) # <<>> THEN Some(trim(value[1])) ELSE None

(* build_messages, were the user message pushed first *)
build_messages_UserFirst(sys, user) ==
    <<[role |-> "user", content |-> user]>>
        \o (IF sys # None THEN <<[role |-> "system", content |-> sys[1]]>> ELSE <<>>)

build_messages(sys, user) ==
    (IF sys # None THEN <<[role |-> "system", content |-> sys[1]]>> ELSE <<>>)
        \o <<[role |-> "user", content |-> user]>>

(* let main_prompt = resolve_prompt(cli.input)?; *)
ResolvePrompt ==
    /\ rs_pc = "prompt"
    /\ LET r == resolve_prompt(cli.input, stdin)
       IN  IF r.ok
           THEN /\ main_prompt' = Some(r.v)
                /\ rs_pc' = "compose"
                /\ UNCHANGED run_error
           ELSE /\ run_error' = Some(r.err)
                /\ rs_pc' = "exit"
                /\ UNCHANGED main_prompt
    /\ UNCHANGED <<cli, env_vars, config_file, load_locals, run_profile, resolved>>
    /\ UNCHANGED <<stdin, prompt, messages, stdout, stderr, saved, argv_rest, exit_code>>
    /\ UNCHANGED <<pureVars, askVars, execVars, netVars>>

(* let prompt = compose_prompt(cli.prompt, &main_prompt.text, cli.postprompt); *)
ComposePrompt ==
    /\ rs_pc = "compose"
    /\ prompt' = Some(compose_prompt(cli.prompt, main_prompt[1].text, cli.postprompt))
    /\ rs_pc' = "messages"
    /\ UNCHANGED <<cli, env_vars, config_file, load_locals, run_profile, resolved, run_error>>
    /\ UNCHANGED <<stdin, main_prompt, messages, stdout, stderr, saved, argv_rest, exit_code>>
    /\ UNCHANGED <<pureVars, askVars, execVars, netVars>>

(* Specification SpecCompose: resolve_prompt and compose_prompt on every
   argument, piped input, pre-prompt and post-prompt of up to MaxSegment
   characters *)

MaxSegment == 2

SegmentChars == {"a", " "}

Segments == UNION {[1..n -> SegmentChars] : n \in 0..MaxSegment}

OptionalSegments == {None} \cup {Some(t) : t \in Segments}

InitCompose ==
    /\ IdlePure
    /\ IdleAsk
    /\ \E input \in OptionalSegments, pre \in OptionalSegments, post \in OptionalSegments :
          cli = [NoFlags EXCEPT !.input = input, !.prompt = pre, !.postprompt = post]
    /\ stdin \in OptionalSegments
    /\ env_vars = [name \in EnvNames |-> None]
    /\ config_file = [status |-> "missing", profiles |-> None, providers |-> None]
    /\ rs_pc = "prompt"
    /\ load_locals = None /\ run_profile = None
    /\ resolved = Unbound /\ run_error = None
    /\ main_prompt = None /\ prompt = None /\ messages = None
    /\ stdout = <<>> /\ stderr = <<>> /\ saved = None
    /\ argv_rest = {} /\ exit_code = None

NextCompose ==
    \/ ResolvePrompt
    \/ ComposePrompt

SpecCompose == InitCompose /\ [][NextCompose]_vars

----------------------------------------------------------------------------
(* bin/mpask.rs run(), from the messages to the dry-run output or the call
   of provider::ask *)

(* OutputFormat::as_str *)
output_as_str(format) == IF format = "Text" THEN "text" ELSE "json"

(* the credential strings of the model that are empty once trimmed *)
BlankKeys == {"", " "}

is_api_key_present(p, e) ==
    e[api_key_env(p)] # None /\ e[api_key_env(p)][1] \notin BlankKeys

REDACTED == "Bearer ***REDACTED***"

JsonRequest ==
    [temperature    |-> resolved.temperature[1],
     max_tokens     |-> resolved.max_tokens[1],
     timeout_secs   |-> resolved.timeout_secs[1],
     retries        |-> resolved.retries[1],
     retry_delay_ms |-> resolved.retry_delay_ms[1]]

DryRunOutput ==
    [line          |-> "dry_run",
     dry_run       |-> TRUE,
     provider      |-> as_str(resolved.provider[1]),
     endpoint      |-> endpoint(resolved.provider[1]),
     model         |-> resolved.model[1],
     messages      |-> messages[1],
     request       |-> JsonRequest,
     output        |-> output_as_str(resolved.output_format[1]),
     show_usage    |-> resolved.show_usage[1],
     authorization |-> REDACTED]

(* the two lines of log_verbose *)
VerboseLines ==
    <<[line            |-> "verbose",
       provider        |-> as_str(resolved.provider[1]),
       endpoint        |-> endpoint(resolved.provider[1]),
       model           |-> resolved.model[1],
       output          |-> output_as_str(resolved.output_format[1]),
       dry_run         |-> cli.dry_run,
       show_usage      |-> resolved.show_usage[1],
       prompt_source   |-> IF main_prompt[1].source = "Argument" THEN "argument" ELSE "stdin",
       messages        |-> Len(messages[1]),
       api_key_present |-> is_api_key_present(resolved.provider[1], env_keys)],
      [line    |-> "verbose: options",
       request |-> JsonRequest]>>

(* let messages = build_messages(non_empty(system.as_deref()), &prompt); *)
BuildMessages ==
    /\ rs_pc = "messages"
    /\ messages' = Some(build_messages(non_empty(resolved.system[1]), prompt[1]))
    /\ rs_pc' = "verbose"
    /\ UNCHANGED <<cli, env_vars, config_file, load_locals, run_profile, resolved, run_error>>
    /\ UNCHANGED <<stdin, main_prompt, prompt, stdout, stderr, saved, argv_rest, exit_code>>
    /\ UNCHANGED <<pureVars, askVars, execVars, netVars>>

(* if cli.verbose { log_verbose(..) } *)
LogVerbose ==
    /\ rs_pc = "verbose"
    /\ stderr' = IF cli.verbose THEN stderr \o VerboseLines ELSE stderr
    /\ rs_pc' = "dry_run"
    /\ UNCHANGED <<cli, env_vars, config_file, load_locals, run_profile, resolved, run_error>>
    /\ UNCHANGED <<stdin, main_prompt, prompt, messages, stdout, saved, argv_rest, exit_code>>
    /\ env_reads' = IF cli.verbose
                    THEN env_reads \cup {[name |-> api_key_env(resolved.provider[1]),
                                          use  |-> "presence"]}
                    ELSE env_reads
    /\ UNCHANGED <<pc, provider, env_keys, options, adapter, api_key, ask_result>>
    /\ UNCHANGED <<pureVars, execVars, netVars>>

(* if cli.dry_run { .. return Ok(()) }: the output is printed, then written
   to the file of --save, which may fail, then the usage line is printed *)
DryRun ==
    /\ rs_pc = "dry_run"
    /\ cli.dry_run
    /\ stdout' = Append(stdout, DryRunOutput)
    /\ \E written \in IF cli.save = None THEN {TRUE} ELSE BOOLEAN :
          IF written
          THEN /\ saved' = IF cli.save = None THEN saved ELSE Some(DryRunOutput)
               /\ stderr' = IF resolved.show_usage[1]
                            THEN Append(stderr, [line |-> "usage: unavailable latency_ms=0 (dry-run)"])
                            ELSE stderr
               /\ UNCHANGED run_error
          ELSE /\ run_error' = Some(Message("Failed to write output file", <<>>, <<>>))
               /\ UNCHANGED <<saved, stderr>>
    /\ rs_pc' = "exit"
    /\ UNCHANGED <<cli, env_vars, config_file, load_locals, run_profile, resolved>>
    /\ UNCHANGED <<stdin, main_prompt, prompt, messages, argv_rest, exit_code>>
    /\ UNCHANGED <<pureVars, askVars, execVars, netVars>>

(* provider::ask(provider, &model, &messages, options), were it called in a
   dry run too *)
CallAsk_EvenDry ==
    /\ rs_pc = "dry_run"
    /\ pc = "idle"
    /\ pc' = "ask"
    /\ provider' = resolved.provider[1]
    /\ options' = [retries        |-> resolved.retries[1],
                   retry_delay_ms |-> resolved.retry_delay_ms[1]]
    /\ rs_pc' = "asking"
    /\ UNCHANGED <<env_keys, env_reads, adapter, api_key, ask_result>>
    /\ UNCHANGED <<cli, env_vars, config_file, load_locals, run_profile, resolved, run_error>>
    /\ UNCHANGED <<pureVars, execVars, netVars, runVars>>

(* let response = provider::ask(provider, &model, &messages, options) *)
CallAsk ==
    /\ rs_pc = "dry_run"
    /\ ~cli.dry_run
    /\ pc = "idle"
    /\ pc' = "ask"
    /\ provider' = resolved.provider[1]
    /\ options' = [retries        |-> resolved.retries[1],
                   retry_delay_ms |-> resolved.retry_delay_ms[1]]
    /\ rs_pc' = "asking"
    /\ UNCHANGED <<env_keys, env_reads, adapter, api_key, ask_result>>
    /\ UNCHANGED <<cli, env_vars, config_file, load_locals, run_profile, resolved, run_error>>
    /\ UNCHANGED <<pureVars, execVars, netVars, runVars>>

(* let cli = Cli::parse(): clap rejects an argument that Cli does not
   declare, prints its error and exits with status 2 *)
ParseCli ==
    /\ rs_pc = "parse"
    /\ IF argv_rest # {}
       THEN /\ stderr' = Append(stderr, [line |-> "error: unexpected argument"])
            /\ exit_code' = Some(2)
            /\ rs_pc' = "exited"
       ELSE /\ rs_pc' = "profile"
            /\ UNCHANGED <<stderr, exit_code>>
    /\ UNCHANGED <<cli, env_vars, config_file, load_locals, run_profile, resolved, run_error>>
    /\ UNCHANGED <<stdin, main_prompt, prompt, messages, stdout, saved, argv_rest>>
    /\ UNCHANGED <<pureVars, askVars, execVars, netVars>>

(* provider::ask(..).await.map_err(|err| err.to_string())? *)
AskReturned ==
    /\ rs_pc = "asking"
    /\ pc = "returned"
    /\ IF ask_result[1].tag = "Ok"
       THEN /\ rs_pc' = "respond"
            /\ UNCHANGED run_error
       ELSE /\ run_error' = Some(Message(ask_result[1].tag, <<>>, <<>>))
            /\ rs_pc' = "exit"
    /\ UNCHANGED <<cli, env_vars, config_file, load_locals, run_profile, resolved>>
    /\ UNCHANGED <<pureVars, askVars, execVars, netVars, runVars>>

(* content.is_empty(), without the trim *)
BlankContents_Untrimmed == {""}

(* the contents of the model that are empty once trimmed *)
BlankContents == {"", " "}

(* response.usage, as the body may give it *)
UsageSamples ==
    {None,
     Some([prompt_tokens |-> None, completion_tokens |-> None, total_tokens |-> None]),
     Some([prompt_tokens |-> Some(3), completion_tokens |-> Some(5), total_tokens |-> Some(8)])}

json_usage(usage) ==
    IF usage.prompt_tokens = None /\ usage.completion_tokens = None /\ usage.total_tokens = None
    THEN None
    ELSE Some(usage)

(* the line of print_usage *)
print_usage(usage) ==
    IF usage # None /\ json_usage(usage[1]) # None
    THEN [line |-> "usage", usage |-> usage[1]]
    ELSE [line |-> "usage: unavailable"]

(* what run() prints for the response in each output format *)
Rendered(content, usage) ==
    IF resolved.output_format[1] = "Text"
    THEN [line |-> "text", answer |-> content]
    ELSE [line     |-> "json",
          provider |-> as_str(resolved.provider[1]),
          model    |-> resolved.model[1],
          answer   |-> content,
          request  |-> JsonRequest,
          usage    |-> IF usage = None THEN None ELSE json_usage(usage[1])]

(* run() after the response, l.265-309: the --fail-on-empty test, the usage
   line, the output, the file of --save *)
Render ==
    /\ rs_pc = "respond"
    /\ LET content == ask_result[1].content
       IN  IF cli.fail_on_empty /\ content \in BlankContents
           THEN /\ run_error' = Some(Message("Model response is empty and --fail-on-empty is enabled.",
                                             <<>>, <<>>))
                /\ UNCHANGED <<stdout, stderr, saved>>
           ELSE \E usage \in UsageSamples,
                   written \in IF cli.save = None THEN {TRUE} ELSE BOOLEAN :
                    /\ stderr' = IF resolved.show_usage[1]
                                 THEN Append(stderr, print_usage(usage))
                                 ELSE stderr
                    /\ stdout' = Append(stdout, Rendered(content, usage))
                    /\ IF written
                       THEN /\ saved' = IF cli.save = None THEN saved
                                        ELSE Some(Rendered(content, usage))
                            /\ UNCHANGED run_error
                       ELSE /\ run_error' = Some(Message("Failed to write output file", <<>>, <<>>))
                            /\ UNCHANGED saved
    /\ rs_pc' = "exit"
    /\ UNCHANGED <<cli, env_vars, config_file, load_locals, run_profile, resolved>>
    /\ UNCHANGED <<stdin, main_prompt, prompt, messages, argv_rest, exit_code>>
    /\ UNCHANGED <<pureVars, askVars, execVars, netVars>>

(* main(): if let Err(err) = run().await { eprintln!("{err}"); process::exit(1) } *)
Main ==
    /\ rs_pc = "exit"
    /\ IF run_error # None
       THEN /\ stderr' = Append(stderr, [line |-> run_error[1].msg])
            /\ exit_code' = Some(1)
       ELSE /\ exit_code' = Some(0)
            /\ UNCHANGED stderr
    /\ rs_pc' = "exited"
    /\ UNCHANGED <<cli, env_vars, config_file, load_locals, run_profile, resolved, run_error>>
    /\ UNCHANGED <<stdin, main_prompt, prompt, messages, stdout, saved, argv_rest>>
    /\ UNCHANGED <<pureVars, askVars, execVars, netVars>>

(* Specification SpecRun: run() of mpask from resolve_profile to the dry-run
   output or to the result of provider::ask.  The dry runs take every
   invocation of SpecResolve over the plain file; those with --verbose, with
   --save or with a credential in the environment study the temperature, and
   the runs that call the provider study the temperature (with and without
   --fail-on-empty and --save), the retries, the output and the usage.  An
   argument that Cli does not declare comes with dry runs. *)

SavePath == "out.txt"

PlainRun(keys, verbose, save) ==
    /\ keys = [k \in KeyEnvs |-> None]
    /\ ~verbose
    /\ save = None

LiveRun(keys, focus, on, cli_provider, env_provider, profile_provider) ==
    /\ \A k \in KeyEnvs : keys[k] = Some("sk-live")
    /\ cli_provider = None /\ env_provider = None
    /\ \/ focus = "temperature" /\ on["cli"] /\ on["env"] /\ profile_provider = None
       \/ focus = "retries" /\ ~on["cli"] /\ ~on["env"] /\ profile_provider = None
       \/ focus \in {"output", "show_usage"} /\ on["cli"] /\ on["profile"]

InitRun ==
    /\ IdlePure
    /\ pc = "idle"
    /\ provider = "Openai"
    /\ options = [retries |-> <<>>, retry_delay_ms |-> N(500)]
    /\ env_reads = {}
    /\ adapter = None
    /\ api_key = ""
    /\ ask_result = None
    /\ max_attempts = <<>> /\ attempt = <<>> /\ exec_result = NoResult
    /\ inflight = {} /\ calls = 0 /\ outcomes = <<>> /\ sleeps = <<>>
    /\ \E focus \in StudiedFields, on \in [Tiers -> BOOLEAN],
          model_from \in {"cli", "profile"},
          profile_name \in {None, Some("fw")},
          cli_provider \in {None},
          env_provider \in {None, Some(<<" ", "O", "p", "e", "n", "A", "I", " ">>)},
          profile_provider \in {None, Some(S_openai), Some(<<"F", "i", "r", "e", "w", "o", "r", "k", "s">>)},
          keys \in [KeyEnvs -> KeyValues],
          dry \in BOOLEAN, verbose \in BOOLEAN, save \in {None, Some(SavePath)},
          fail_on_empty \in BOOLEAN, rest \in {{}, {"--quiet"}} :
          \E variant \in Variants(focus) :
              /\ Studied(focus, variant, model_from, profile_name, "plain")
              /\ ~dry => /\ verbose => focus = "show_usage"
                         /\ LiveRun(keys, focus, on, cli_provider, env_provider, profile_provider)
                         /\ focus # "temperature" => (save = None /\ ~fail_on_empty)
              /\ dry => ~fail_on_empty
              /\ rest # {} =>
                    /\ dry
                    /\ focus \in {"show_usage", "model"} \/ ~PlainRun(keys, verbose, save)
              /\ (dry /\ ~PlainRun(keys, verbose, save)) =>
                    /\ focus = "temperature" /\ variant = "plain"
                    /\ on["cli"] /\ on["env"]
                    /\ cli_provider = None /\ env_provider = None
              /\ cli = [CliOf(profile_name, cli_provider, focus, on, model_from, variant)
                            EXCEPT !.dry_run = dry, !.verbose = verbose, !.save = save,
                                   !.fail_on_empty = fail_on_empty,
                                   !.input = Some(<<"h", "i">>)]
              /\ env_vars = EnvOf(env_provider, focus, on, model_from, variant)
              /\ config_file = FileOf(profile_provider, focus, on, model_from, variant)
              /\ env_keys = keys
              /\ argv_rest = rest
    /\ stdin = None /\ main_prompt = None /\ prompt = None /\ messages = None
    /\ stdout = <<>> /\ stderr = <<>> /\ saved = None
    /\ exit_code = None
    /\ rs_pc = "parse"
    /\ load_locals = None
    /\ run_profile = None
    /\ resolved = Unbound
    /\ run_error = None

NextRun ==
    \/ ParseCli
    \/ NextResolve
    \/ ResolvePrompt
    \/ ComposePrompt
    \/ BuildMessages
    \/ LogVerbose
    \/ DryRun
    \/ CallAsk
    \/ Next
    \/ AskReturned
    \/ Render
    \/ Main

SpecRun == InitRun /\ [][NextRun]_vars

----------------------------------------------------------------------------
(* Specification SpecConfig: the config file is loaded for a profile name,
   by mpask's resolve_profile or by the config check command
   (commands/config.rs run), whose --profile is cli.profile here. *)

(* ConfigSubcommand::Check { profile } *)
ConfigCheck ==
    /\ rs_pc = "check"
    /\ \E r \in validate_config(config_file, cli.profile) :
          IF r.ok
          THEN /\ stdout' = Append(stdout, "config OK")
               /\ UNCHANGED run_error
          ELSE /\ run_error' = Some(r.err)
               /\ UNCHANGED stdout
    /\ rs_pc' = "config_exit"
    /\ UNCHANGED <<cli, env_vars, config_file, load_locals, run_profile, resolved>>
    /\ UNCHANGED <<stdin, main_prompt, prompt, messages, stderr, saved, argv_rest, exit_code>>
    /\ UNCHANGED <<pureVars, askVars, execVars, netVars>>

InitConfig ==
    /\ IdlePure
    /\ IdleAsk
    /\ IdleRun
    /\ \E on \in [Tiers -> BOOLEAN],
          profile_name \in {None, Some("fw"), Some("nope")},
          kind \in FileKinds,
          profile_provider \in {None, Some(S_openai)} :
          /\ cli = [NoFlags EXCEPT !.profile = profile_name]
          /\ config_file =
                FileAs(kind, FileOf(profile_provider, "timeout", on, "profile", "plain"))
    /\ env_vars = [name \in EnvNames |-> None]
    /\ rs_pc \in {"profile", "check"}
    /\ load_locals = None
    /\ run_profile = None
    /\ resolved = Unbound
    /\ run_error = None

NextConfig ==
    \/ ResolveProfile
    \/ ConfigCheck

SpecConfig == InitConfig /\ [][NextConfig]_vars

----------------------------------------------------------------------------
(* Specification SpecStatus: is_retryable_status on every status code *)

InitStatus ==
    /\ IdleResolve
    /\ st_pc = "ready"
    /\ st_status \in StatusCodes
    /\ st_result = FALSE
    /\ dl_pc = "idle" /\ dl_attempt = <<>> /\ dl_base = <<>> /\ dl_result = <<>>
    /\ IdleAsk

ClassifyStatus ==
    /\ st_pc = "ready"
    /\ st_result' = is_retryable_status(st_status)
    /\ st_pc' = "done"
    /\ UNCHANGED <<st_status, dl_pc, dl_attempt, dl_base, dl_result>>
    /\ UNCHANGED <<askVars, execVars, netVars, resolveVars, runVars>>

NextStatus == ClassifyStatus

SpecStatus == InitStatus /\ [][NextStatus]_vars

(* Specification SpecDelay: retry_delay on attempt indexes and base delays *)

MaxShift == 70

AttemptSamples ==
    {N(k) : k \in 0..MaxShift} \cup {N(128), N(129), N(1000), N(65536), <<7294, 9496, 42>>, U32_MAX}

BaseSamples ==
    {N(1), N(2), N(200), N(500), N(5000), N(29999), N(30000), N(30001),
     N(2147483647), <<7296, 9496, 42>>,
     <<5808, 5477, 3685, 3720, 922>>,      \* 2^63
     <<1614, 955, 737, 6744, 1844>>, U64_MAX}

InitDelay ==
    /\ IdleResolve
    /\ dl_pc = "ready"
    /\ dl_attempt \in AttemptSamples
    /\ dl_base \in BaseSamples
    /\ dl_result = <<>>
    /\ st_pc = "idle" /\ st_status = 0 /\ st_result = FALSE
    /\ IdleAsk

ComputeDelay ==
    /\ dl_pc = "ready"
    /\ dl_result' = retry_delay(dl_attempt, dl_base)
    /\ dl_pc' = "done"
    /\ UNCHANGED <<dl_attempt, dl_base, st_pc, st_status, st_result>>
    /\ UNCHANGED <<askVars, execVars, netVars, resolveVars, runVars>>

NextDelay == ComputeDelay

SpecDelay == InitDelay /\ [][NextDelay]_vars

----------------------------------------------------------------------------
(* The executor's claims, in the words of the specification *)

Entered == max_attempts # <<>>

ExecReturned == exec_result.tag # "none"

ExecFailed == exec_result.tag \in {"Api", "Request"}

SuccessOutcome(o) == o.kind = "http" /\ 200 <= o.status /\ o.status <= 299

RetryableOutcome(o) ==
    \/ o.kind = "http" /\ (o.status = 429 \/ (500 <= o.status /\ o.status <= 599))
    \/ o.kind = "net" /\ o.err \in {"timeout", "connect", "request"}

FatalOutcome(o) == ~SuccessOutcome(o) /\ ~RetryableOutcome(o)

AllRetryable(k) == \A i \in 1..k : RetryableOutcome(outcomes[i])

LastOutcome == outcomes[Len(outcomes)]

(* the failure an attempt's outcome stands for *)
FailureOf(o, n) ==
    IF o.kind = "http"
    THEN [tag |-> "Api", from |-> n, status |-> o.status,
          body |-> IF o.text = None THEN "" ELSE o.text[1], source |-> ""]
    ELSE [tag |-> "Request", from |-> n, status |-> 0, body |-> "", source |-> o.err]

(* what C1 says of the runs within MaxCalls: k retryable failures followed
   by a success return the success after k + 1 calls, and k <= R retryable
   failures never end the executor *)
C1_WithinCalls ==
    Entered =>
        /\ (ExecReturned /\ outcomes # <<>> /\ SuccessOutcome(LastOutcome)) =>
               /\ exec_result = Ok(Len(outcomes))
               /\ calls = Len(outcomes)
               /\ AllRetryable(Len(outcomes) - 1)
        /\ (AllRetryable(Len(outcomes)) /\ BigLe(N(Len(outcomes)), options.retries)) =>
               ~ExecReturned

(* C1: for any retries = R and any k <= R, k retryable failures followed by
   a success return the response of attempt k + 1 after exactly k + 1 HTTP
   calls.  Attempt k + 1 is made after k retryable failures exactly when
   k < max_attempts, so for every k <= R the budget must exceed R. *)
C1_RetryThenSuccess ==
    Entered => (BigLt(options.retries, max_attempts) /\ C1_WithinCalls)

(* C2: for every value of retries, the 32-bit maximum included, the attempt
   budget is max_attempts = retries + 1, and when every attempt fails with a
   retryable outcome exactly retries + 1 HTTP calls are made before the
   failure is returned. *)
C2_AttemptBudget ==
    Entered =>
        /\ max_attempts = BigAdd(options.retries, N(1))
        /\ (ExecFailed /\ AllRetryable(Len(outcomes))) =>
               N(calls) = BigAdd(options.retries, N(1))

(* C3: with retries = 0 any failed attempt, retryable or fatal, HTTP-level or
   network-level, ends the executor after exactly 1 HTTP call and with no
   backoff sleep. *)
C3_NoRetries ==
    (Entered /\ options.retries = N(0)) =>
        /\ calls <= 1
        /\ sleeps = <<>>
        /\ pc # "Backoff"
        /\ (outcomes # <<>> /\ ~SuccessOutcome(outcomes[1])) =>
               /\ calls = 1
               /\ exec_result = FailureOf(outcomes[1], 1)
               /\ pc \in {"Failed", "returned"}

C3_Witness ==
    /\ options.retries = N(0)
    /\ pc = "Failed"
    /\ outcomes = <<HttpFail(500, Some("boom"))>>

(* C4: an attempt that ends with a fatal outcome (a non-success status that
   is neither 429 nor 5xx, or a network error that is no timeout, connection
   failure or request error) makes the executor return that failure at once:
   no backoff sleep and no further HTTP call follow, whatever is left of the
   retry budget. *)
C4_FatalIsImmediate ==
    \A i \in DOMAIN outcomes :
        FatalOutcome(outcomes[i]) =>
            /\ i = Len(outcomes)
            /\ calls = i
            /\ Len(sleeps) = i - 1
            /\ inflight = {}
            /\ exec_result = FailureOf(outcomes[i], i)
            /\ pc \in {"Failed", "returned"}

(* a fatal network error on the second attempt, with budget left *)
C4_Witness ==
    /\ options.retries = U32_MAX
    /\ Len(outcomes) = 2
    /\ outcomes[2] = NetErr("builder")
    /\ pc = "Failed"

(* C7: a failure returned by the executor is the outcome of the last HTTP
   attempt performed, its status and body or its network error, never that of
   an earlier attempt; retries = 2 with 500, 503, 429 returns Api{429}. *)
C7_LastFailure ==
    ExecFailed =>
        /\ calls = Len(outcomes)
        /\ exec_result = FailureOf(LastOutcome, calls)
        /\ (ask_result # None =>
               /\ ask_result[1].tag = exec_result.tag
               /\ ask_result[1].status = exec_result.status
               /\ ask_result[1].body = exec_result.body
               /\ ask_result[1].source = exec_result.source)

C7_Witness ==
    /\ options.retries = N(2)
    /\ Len(outcomes) = 3
    /\ outcomes[1].status = 500 /\ outcomes[2].status = 503 /\ outcomes[3].status = 429
    /\ exec_result = Api(3, 429, "slow down")
    /\ pc = "returned"

(* C8: at most one HTTP request is in flight in every reachable state:
   attempt n + 1 is started only after attempt n was answered and its backoff
   sleep has finished, and no request goes to a second provider. *)
C8_OneInFlight ==
    /\ Cardinality(inflight) <= 1
    /\ calls = Len(outcomes) + Cardinality(inflight)
    /\ \A r \in inflight :
        /\ pc = "Awaiting"
        /\ r.call = calls
        /\ Len(sleeps) = Len(outcomes)
        /\ AllRetryable(Len(outcomes))
        /\ r.url = endpoint(provider)

(* the third attempt in flight, after two failures and two sleeps *)
C8_Witness ==
    /\ Cardinality(inflight) = 1
    /\ calls = 3
    /\ Len(sleeps) = 2

(* C5: is_retryable_status(s) is true exactly for s = 429 and for
   500 <= s <= 599; 429, 500, 502 and 503 are retryable, 400, 401 and 404
   are not. *)
C5_RetryableStatus ==
    st_pc = "done" =>
        /\ st_result = (st_status = 429 \/ (500 <= st_status /\ st_status <= 599))
        /\ (st_status \in {429, 500, 502, 503} => st_result)
        /\ (st_status \in {400, 401, 404} => ~st_result)

C5_Witness == st_pc = "done" /\ st_status = 429 /\ st_result

(* min(b * 2^n, 30000) over the unbounded naturals.  2^n is computed outright
   up to n = 128; beyond that 2^n > 30000 and b >= 1, so the minimum is the
   cap. *)
ExactDelay(n, b) ==
    IF BigLe(n, N(128))
    THEN BigMin(BigMul(b, Pow2(Small(n))), N(30000))
    ELSE N(30000)

(* C6: for every attempt index n and base delay b > 0, retry_delay(n, b) is
   min(b * 2^n, 30000) ms over unbounded integers: overflow of the shift or of
   the multiplication saturates and never wraps to a smaller delay. *)
C6_RetryDelay ==
    dl_pc = "done" =>
        /\ dl_result = ExactDelay(dl_attempt, dl_base)
        /\ (dl_base = N(200) /\ dl_attempt = N(0) => dl_result = N(200))
        /\ (dl_base = N(200) /\ dl_attempt = N(1) => dl_result = N(400))
        /\ (dl_base = N(200) /\ dl_attempt = N(2) => dl_result = N(800))
        /\ (dl_base = N(500) /\ dl_attempt = N(10) => dl_result = N(30000))
        /\ (dl_base = N(5000) /\ dl_attempt = N(30) => dl_result = N(30000))

(* a shift amount of 64 or more, where checked_shl gives None *)
C6_Witness ==
    dl_pc = "done" /\ dl_attempt = U32_MAX /\ dl_base = N(1) /\ dl_result = N(30000)

----------------------------------------------------------------------------
(* The resolver's precedence *)

(* the first tier of a sequence of Options that gives a value *)
RECURSIVE FirstGiven(_)
FirstGiven(tiers) ==
    IF tiers = <<>> THEN None
    ELSE IF tiers[1] # None THEN tiers[1]
    ELSE FirstGiven(Tail(tiers))

FirstDefined(tiers, default) == unwrap_or(FirstGiven(tiers), default)

(* a tier's string when it is not blank, trimmed *)
NonBlank(o) == IF o # None /\ trim(o[1]) # <<>> THEN Some(trim(o[1])) ELSE None

(* what a tier's text stands for *)
Parsed(o, parse(_)) == IF o = None THEN None ELSE Some(parse(o[1]).v)

AsProvider(raw) == parse_provider_value(raw, "")

AsF32(raw) == parse_f32(trim(raw))

AsU32(raw) == parse_u32(trim(raw))

AsU64(raw) == parse_u64(trim(raw))

(* the profile that load_profile read, and the bundle it merged into it *)
ProfileTier == load_locals[1].profile

LoadedBundle == unwrap_or(load_locals[1].provider_defaults, DefaultDefaults)

(* the bundles of the sections of the loaded file whose key names the
   resolved provider; no file is loaded when no profile is named *)
ResolvedProviderBundles ==
    IF cli.profile = None THEN {None}
    ELSE provider_defaults_for([profiles |-> config_file.profiles,
                                providers |-> config_file.providers],
                               as_str(resolved.provider[1]))

(* flag > environment > profile > provider default > hardcoded default *)
Precedence(local, DefaultsTier) ==
    CASE local = "provider" ->
        FirstDefined(<<cli.provider,
                       Parsed(env_vars["MP_PROVIDER"], AsProvider),
                       Parsed(ProfileTier.provider, AsProvider)>>, "Openai")
      [] local = "model" ->
        FirstDefined(<<NonBlank(cli.model), NonBlank(env_vars["MP_MODEL"]),
                       NonBlank(ProfileTier.model), NonBlank(DefaultsTier.model)>>, <<>>)
      [] local = "temperature" ->
        FirstGiven(<<cli.temperature,
                       Parsed(env_vars["MP_TEMPERATURE"], AsF32),
                       ProfileTier.temperature,
                       DefaultsTier.temperature>>)
      [] local = "max_tokens" ->
        FirstGiven(<<cli.max_tokens,
                       Parsed(env_vars["MP_MAX_TOKENS"], AsU32),
                       ProfileTier.max_tokens,
                       DefaultsTier.max_tokens>>)
      [] local = "timeout_secs" ->
        FirstGiven(<<cli.timeout,
                       Parsed(env_vars["MP_TIMEOUT"], AsU64),
                       ProfileTier.timeout,
                       DefaultsTier.timeout>>)
      [] local = "retries" ->
        FirstDefined(<<cli.retries, Parsed(env_vars["MP_RETRIES"], AsU32),
                       ProfileTier.retries, DefaultsTier.retries>>, N(0))
      [] local = "retry_delay_ms" ->
        FirstDefined(<<cli.retry_delay, Parsed(env_vars["MP_RETRY_DELAY"], AsU64),
                       ProfileTier.retry_delay, DefaultsTier.retry_delay>>,
                     N(DEFAULT_RETRY_DELAY_MS))
      [] local = "output_format" ->
        FirstDefined(<<IF cli.json THEN Some("Json") ELSE None, cli.output,
                       Parsed(ProfileTier.output, parse_output_format),
                       Parsed(DefaultsTier.output, parse_output_format)>>, "Text")
      [] local = "show_usage" ->
        FirstDefined(<<IF cli.show_usage THEN Some(TRUE) ELSE None,
                       ProfileTier.show_usage, DefaultsTier.show_usage>>, FALSE)
      [] local = "system" ->
        FirstGiven(<<cli.system, ProfileTier.system,
                       DefaultsTier.system>>)

(* the order holds over the bundle that load_profile merged *)
PrecedenceOverLoadedBundle ==
    rs_pc # "idle" =>
        \A local \in DOMAIN Unbound :
            resolved[local] # None =>
                resolved[local][1] = Precedence(local, LoadedBundle)

(* C9: every local of run() that is bound holds the value of the highest
   tier that defines it, in the order explicit flag > environment variable >
   profile field > provider-default field > hardcoded default, each field on
   its own; the provider-default fields are those of the resolved provider's
   bundle. *)
C9_Precedence ==
    rs_pc # "idle" =>
        \A local \in DOMAIN Unbound :
            resolved[local] # None =>
                IF local = "provider"
                THEN resolved[local][1] = Precedence(local, DefaultDefaults)
                ELSE \E d \in ResolvedProviderBundles :
                        resolved[local][1] =
                            Precedence(local, unwrap_or(d, DefaultDefaults))

(* C10: once the provider is resolved in a run that names a profile, the
   provider-default bundle that load_profile merged into the profile is the
   bundle of the sections whose key, trimmed and lowercased, is the resolved
   provider's name. *)
C10_BundleOfResolvedProvider ==
    (rs_pc # "idle" /\ cli.profile # None /\ resolved.provider # None) =>
        load_locals[1].provider_defaults \in ResolvedProviderBundles

----------------------------------------------------------------------------
(* The adapter *)

AdapterPastKey == pc \notin {"idle", "ask", "adapter"}

(* C18: once the adapter has looked the credential up, if the provider's
   credential variable is absent or empty then ask has returned
   MissingApiKey naming that variable and no HTTP request was sent. *)
C18_MissingApiKey ==
    (AdapterPastKey /\ env_keys[api_key_env(provider)] \in {None, Some("")}) =>
        /\ pc = "returned"
        /\ ask_result[1].tag = "MissingApiKey"
        /\ ask_result[1].key_env = api_key_env(provider)
        /\ calls = 0

(* the body of the successful response that the executor returned *)
ReturnedBody == outcomes[exec_result.from]

(* C19: when the executor returned a successful response that parses, ask
   returns EmptyResponse if there is no first choice or its content is
   absent or empty, and otherwise returns the first choice's content, which
   is not empty; the successful response is the last request sent. *)
C19_EmptyResponse ==
    (pc = "returned" /\ exec_result.tag = "Ok" /\ ReturnedBody.parses) =>
        LET choices == ReturnedBody.choices
            empty   == \/ choices = <<>>
                       \/ choices[1] = None
                       \/ choices[1] = Some("")
        IN  /\ empty => ask_result[1].tag = "EmptyResponse"
            /\ ~empty => /\ ask_result[1].tag = "Ok"
                         /\ ask_result[1].content = choices[1][1]
                         /\ ask_result[1].content # ""
            /\ calls = exec_result.from
            /\ inflight = {}

(* EmptyResponse on the first attempt with retries left, the first choice
   empty while a later choice has content *)
C19_Witness ==
    /\ pc = "returned"
    /\ ask_result[1].tag = "EmptyResponse"
    /\ calls = 1
    /\ BigLt(N(1), max_attempts)
    /\ Len(ReturnedBody.choices) = 2

----------------------------------------------------------------------------
(* The prompt *)

(* the three segments, in order: an absent pre- or post-prompt is empty *)
PromptSegments ==
    <<unwrap_or(cli.prompt, <<>>), main_prompt[1].text, unwrap_or(cli.postprompt, <<>>)>>

Kept(segments, keep) ==
    LET pick(i) == IF keep[i] THEN <<segments[i]>> ELSE <<>>
    IN  pick(1) \o pick(2) \o pick(3)

(* C20: the composed prompt is the segments that are not empty, in the order
   pre-prompt, main prompt, post-prompt, joined by a blank line: every empty
   segment is left out and every segment with a character other than
   whitespace is kept (a segment of whitespace only may be either). *)
C20_ComposePrompt ==
    prompt # None =>
        \E keep \in [1..3 -> BOOLEAN] :
            /\ \A i \in 1..3 :
                  /\ PromptSegments[i] = <<>> => ~keep[i]
                  /\ trim(PromptSegments[i]) # <<>> => keep[i]
            /\ prompt[1] = join(Kept(PromptSegments, keep), Separator)

----------------------------------------------------------------------------
(* The profile and the config file *)

(* C13: in a run that names no profile, whatever the config file is
   (missing, unparsable, invalid, valid, with a profile named default),
   resolve_profile succeeds with the all-default profile and no provider
   defaults, and every bound local is what the flags and the environment
   alone give. *)
C13_NoImplicitProfile ==
    (rs_pc \notin {"idle", "profile"} /\ cli.profile = None) =>
        /\ load_locals = Some([profile |-> DefaultProfile, provider_defaults |-> None])
        /\ run_profile = Some(DefaultProfile)
        /\ \A local \in DOMAIN Unbound :
              resolved[local] # None =>
                  resolved[local][1] = Precedence(local, DefaultDefaults)

(* a complete resolution without a profile name, over a file that declares
   a profile named default with a timeout: no timeout is resolved *)
C13_Witness ==
    /\ rs_pc = "prompt"
    /\ cli.profile = None
    /\ config_file.status = "ok"
    /\ config_file.profiles # None
    /\ "default" \in DOMAIN config_file.profiles[1]
    /\ config_file.profiles[1]["default"].timeout # None
    /\ resolved.timeout_secs = Some(None)

KnownProvider(raw) == to_ascii_lowercase(trim(raw)) \in {S_openai, S_fireworks}

FieldsInDomain(fields) ==
    /\ fields.temperature # None =>
          /\ ~fields.temperature[1].nan
          /\ fields.temperature[1].tenths \in 0..20
    /\ fields.max_tokens # None => fields.max_tokens[1] # N(0)
    /\ fields.timeout # None => fields.timeout[1] # N(0)
    /\ fields.retry_delay # None => fields.retry_delay[1] # N(0)
    /\ fields.output # None =>
          to_ascii_lowercase(trim(fields.output[1])) \in {S_text, S_json}

ProfileInDomain(profile) ==
    /\ profile.provider # None => KnownProvider(profile.provider[1])
    /\ FieldsInDomain(profile)

FileInDomain ==
    /\ config_file.providers # None =>
          \A k \in DOMAIN config_file.providers[1] :
              /\ KnownProvider(k)
              /\ config_file.providers[1][k].defaults # None =>
                    FieldsInDomain(config_file.providers[1][k].defaults[1])
    /\ config_file.profiles # None =>
          \A n \in DOMAIN config_file.profiles[1] :
              ProfileInDomain(config_file.profiles[1][n])

(* C14: in a run that names a profile, if any profile or any provider
   section of the file, selected or not, has an out-of-domain temperature,
   max_tokens, timeout, retry_delay or output, an unknown profile provider
   or an unknown section name, then loading has failed: no profile was
   returned and run() exited with the error. *)
C14_EagerValidation ==
    (rs_pc \notin {"idle", "profile"} /\ cli.profile # None /\ ~FileInDomain) =>
        /\ load_locals = None
        /\ run_profile = None
        /\ run_error # None
        /\ rs_pc = "exit"

(* the load failed over a readable file whose selected profile and provider
   sections are all in domain: only the profile named other is not *)
C14_Witness ==
    /\ rs_pc = "exit"
    /\ cli.profile = Some("fw")
    /\ load_locals = None
    /\ config_file.status = "ok"
    /\ config_file.profiles # None
    /\ DOMAIN config_file.profiles[1] = {"fw", "other"}
    /\ ProfileInDomain(config_file.profiles[1]["fw"])
    /\ ~ProfileInDomain(config_file.profiles[1]["other"])
    /\ \A k \in DOMAIN config_file.providers[1] :
          /\ KnownProvider(k)
          /\ FieldsInDomain(config_file.providers[1][k].defaults[1])

Declared(name) ==
    config_file.profiles # None /\ name \in DOMAIN config_file.profiles[1]

(* the file can be read, is TOML and passes validation *)
FileLoads == config_file.status = "ok" /\ FileInDomain

LookupErrors ==
    {"Profile not found in config file",
     "Config file does not contain a [profiles] section."}

(* C15: over a file that loads, a profile name that the file does not
   declare (also when it has no profiles table) makes load_profile fail, so
   that run() exits with the lookup error and no profile, and makes
   validate_config(Some(name)) fail, so that the check prints nothing;
   validate_config(None) succeeds over a file without a profiles table. *)
C15_ProfileNotFound ==
    /\ (rs_pc \in {"provider", "exit", "config_exit"} /\ FileLoads
            /\ cli.profile # None /\ ~Declared(cli.profile[1])) =>
          /\ rs_pc # "provider"
          /\ load_locals = None
          /\ run_profile = None
          /\ stdout = <<>>
          /\ run_error # None
          /\ run_error[1].msg \in LookupErrors
    /\ (rs_pc = "config_exit" /\ FileLoads /\ cli.profile = None) =>
          /\ run_error = None
          /\ stdout = <<"config OK">>

(* the check of a name over a valid file that has no profiles table *)
C15_Witness ==
    /\ rs_pc = "config_exit"
    /\ FileLoads
    /\ config_file.profiles = None
    /\ cli.profile = Some("nope")
    /\ run_error # None
    /\ run_error[1].msg = "Config file does not contain a [profiles] section."

----------------------------------------------------------------------------
(* The model and the provider *)

(* what each tier yields for the model: its value when not blank, trimmed *)
ModelTiers ==
    <<NonBlank(cli.model), NonBlank(env_vars["MP_MODEL"]),
      NonBlank(ProfileTier.model), NonBlank(LoadedBundle.model)>>

ModelStepDone == resolved.provider # None /\ rs_pc # "model"

(* C16: once run() is past resolve_model, the model is unbound (resolution
   failed) exactly when no tier among --model, MP_MODEL, the profile's model
   and the provider-default model yields a value that is not blank; a bound
   model is the first such value, trimmed; and the provider is OpenAI by
   fallback only when no tier defines a provider. *)
C16_ModelAndProvider ==
    /\ (rs_pc # "idle" /\ ModelStepDone) =>
          /\ resolved.model = None <=> FirstGiven(ModelTiers) = None
          /\ resolved.model = FirstGiven(ModelTiers)
    /\ (rs_pc # "idle" /\ resolved.provider # None) =>
          resolved.provider[1] = Precedence("provider", DefaultDefaults)

----------------------------------------------------------------------------
(* Out-of-domain values and the whole run *)

OutOfRange(value) == value.nan \/ value.tenths \notin 0..20

(* a temperature that the file holds, in a profile or in a provider-default
   bundle, is outside [0.0, 2.0] *)
FileTemperatureOutOfRange ==
    /\ config_file.status = "ok"
    /\ \/ /\ config_file.profiles # None
          /\ \E n \in DOMAIN config_file.profiles[1] :
                /\ config_file.profiles[1][n].temperature # None
                /\ OutOfRange(config_file.profiles[1][n].temperature[1])
       \/ /\ config_file.providers # None
          /\ \E k \in DOMAIN config_file.providers[1] :
                /\ config_file.providers[1][k].defaults # None
                /\ config_file.providers[1][k].defaults[1].temperature # None
                /\ OutOfRange(config_file.providers[1][k].defaults[1].temperature[1])

(* the invocation gives a temperature outside [0.0, 2.0] at some tier; the
   file's tiers are tiers only when a profile is named *)
InvalidTemperatureGiven ==
    \/ cli.temperature # None /\ OutOfRange(cli.temperature[1])
    \/ /\ env_vars["MP_TEMPERATURE"] # None
       /\ AsF32(env_vars["MP_TEMPERATURE"][1]).ok
       /\ OutOfRange(AsF32(env_vars["MP_TEMPERATURE"][1]).v)
    \/ cli.profile # None /\ FileTemperatureOutOfRange

BeforeTemperatureBound == rs_pc \in {"profile", "provider", "model", "temperature"}

(* C11: when a temperature outside [0.0, 2.0] is given at any tier (the
   flag, MP_TEMPERATURE, the profile, a provider-default bundle), run() never
   gets past the resolution of the temperature: it is still before it, or it
   has exited with an error; and no HTTP attempt was made. *)
C11_InvalidTemperatureFails ==
    (rs_pc # "idle" /\ InvalidTemperatureGiven) =>
        /\ calls = 0
        /\ BeforeTemperatureBound \/ (rs_pc = "exit" /\ run_error # None)

(* the locals of run() that are bound hold values of their domains *)
BoundInDomain ==
    /\ resolved.model # None => trim(resolved.model[1]) # <<>>
    /\ resolved.temperature # None =>
          \/ resolved.temperature[1] = None
          \/ ~OutOfRange(resolved.temperature[1][1])
    /\ resolved.max_tokens # None =>
          \/ resolved.max_tokens[1] = None
          \/ resolved.max_tokens[1][1] # N(0)
    /\ resolved.timeout_secs # None =>
          \/ resolved.timeout_secs[1] = None
          \/ resolved.timeout_secs[1][1] # N(0)
    /\ resolved.retry_delay_ms # None => resolved.retry_delay_ms[1] # N(0)
    /\ resolved.output_format # None => resolved.output_format[1] \in {"Text", "Json"}

AllBound == \A local \in DOMAIN resolved : resolved[local] # None

(* C12: every local that the resolution has bound is in its domain
   (temperature absent or in [0.0, 2.0], max_tokens and timeout absent or
   not 0, retry_delay not 0, output text or json, model not empty), and
   nothing is printed on the primary output and provider::ask is not entered
   unless all of them are bound. *)
C12_ResolvedInDomain ==
    rs_pc # "idle" =>
        /\ BoundInDomain
        /\ (stdout # <<>> \/ pc # "idle" \/ calls > 0) => AllBound

(* a dry run printed its output with a temperature that a tier below the
   flag supplied *)
C12_Witness ==
    /\ rs_pc = "exit"
    /\ stdout # <<>>
    /\ cli.temperature = None
    /\ resolved.temperature[1] # None
    /\ BoundInDomain

----------------------------------------------------------------------------
(* Dry runs *)

(* the credentials that the environment holds *)
CredentialValues ==
    {env_keys[k][1] : k \in {e \in KeyEnvs : env_keys[e] # None /\ env_keys[e] # Some("")}}

(* the fields of a printed entry that are text *)
TextFields == {"line", "provider", "endpoint", "output", "authorization"}

NoCredentialIn(channel) ==
    \A i \in DOMAIN channel :
        \A f \in DOMAIN channel[i] \cap TextFields : channel[i][f] \notin CredentialValues

(* C17: in a dry run no HTTP attempt is made, provider::ask is not entered
   and no adapter is chosen, the credential is never read; every dry-run
   output printed carries the redacted placeholder as its authorization;
   neither the primary output, nor the error channel, nor the error that
   run() returns holds a credential of the environment; and once the
   messages are built the run ends with exactly the dry-run output printed
   and without error, unless the file of --save could not be written. *)
C17_DryRun ==
    (rs_pc # "idle" /\ cli.dry_run) =>
        /\ calls = 0 /\ inflight = {}
        /\ pc = "idle" /\ adapter = None /\ api_key = ""
        /\ \A i \in DOMAIN stdout :
              stdout[i].line = "dry_run" /\ stdout[i].authorization = REDACTED
        /\ NoCredentialIn(stdout) /\ NoCredentialIn(stderr)
        /\ run_error # None => run_error[1].msg \notin CredentialValues
        /\ (rs_pc = "exit" /\ messages # None) =>
              /\ Len(stdout) = 1
              /\ run_error # None => cli.save # None

(* a verbose dry run ended well with the credential set in the environment *)
C17_Witness ==
    /\ cli.dry_run /\ cli.verbose
    /\ rs_pc = "exit"
    /\ env_keys[api_key_env(resolved.provider[1])] = Some("sk-live")
    /\ Len(stdout) = 1 /\ stdout[1].authorization = REDACTED
    /\ Len(stderr) >= 2 /\ stderr[1].api_key_present
    /\ run_error = None
    /\ calls = 0

----------------------------------------------------------------------------
(* The messages *)

(* C21: the messages that run() builds are at most one system message and
   then exactly one user message: the last message is the user message with
   the composed prompt; there is a system message exactly when the resolved
   system prompt is not blank, it is first and carries that prompt trimmed;
   and the dry-run output shows these messages. *)
C21_MessageSequence ==
    messages # None =>
        LET m == messages[1]
            sys == resolved.system[1]
        IN  /\ Len(m) \in {1, 2}
            /\ m[Len(m)] = [role |-> "user", content |-> prompt[1]]
            /\ Len(m) = 2 <=> (sys # None /\ trim(sys[1]) # <<>>)
            /\ Len(m) = 2 => m[1] = [role |-> "system", content |-> trim(sys[1])]
            /\ \A i \in DOMAIN stdout :
                  stdout[i].line = "dry_run" => stdout[i].messages = m

(* a system prompt of the profile, in a dry run that printed its output *)
C21_Witness ==
    /\ messages # None
    /\ Len(messages[1]) = 2
    /\ cli.system = None
    /\ messages[1][1].role = "system"
    /\ Len(stdout) = 1

----------------------------------------------------------------------------
(* The response *)

Ended == rs_pc \in {"exit", "exited"}

(* provider::ask returned content that is empty once trimmed *)
BlankAnswer ==
    /\ ~cli.dry_run
    /\ pc = "returned"
    /\ ask_result[1].tag = "Ok"
    /\ ask_result[1].content \in {"", " "}

(* C22: when provider::ask returned content that is empty once trimmed and
   run() has ended: with --fail-on-empty it ended with an error, the exit
   status is 1, and nothing was printed on the primary output nor written to
   the file of --save; without --fail-on-empty that content was printed as
   the answer. *)
C22_FailOnEmpty ==
    (BlankAnswer /\ Ended) =>
        IF cli.fail_on_empty
        THEN /\ run_error # None
             /\ stdout = <<>> /\ saved = None
             /\ exit_code # None => exit_code = Some(1)
        ELSE /\ Len(stdout) = 1
             /\ stdout[1].answer = ask_result[1].content
             /\ (cli.save # None /\ run_error = None) => saved = Some(stdout[1])

(* a run with --fail-on-empty and --save whose answer was a blank *)
C22_Witness ==
    /\ BlankAnswer /\ rs_pc = "exited"
    /\ cli.fail_on_empty /\ cli.save # None
    /\ exit_code = Some(1)
    /\ stdout = <<>> /\ saved = None

----------------------------------------------------------------------------
(* The output format *)

(* the format that the flags and the loaded profile ask for: --json, then
   --output, then the profile's output read without case and blanks, then
   text *)
AskedFormat ==
    IF cli.json THEN "Json"
    ELSE IF cli.output # None THEN cli.output[1]
    ELSE IF run_profile[1].output # None
    THEN (IF to_ascii_lowercase(trim(run_profile[1].output[1])) = S_json THEN "Json" ELSE "Text")
    ELSE "Text"

(* C23: once the output format is bound it is json whenever --json is given,
   whatever --output and the profile say; otherwise it is the value of
   --output, otherwise the profile's output, otherwise text; and the dry-run
   output shows that format. *)
C23_JsonFlag ==
    resolved.output_format # None =>
        /\ resolved.output_format[1] = AskedFormat
        /\ \A i \in DOMAIN stdout :
              stdout[i].line = "dry_run" =>
                  stdout[i].output = (IF AskedFormat = "Json" THEN "json" ELSE "text")

(* --json with --output text and a profile, in a dry run that printed *)
C23_Witness ==
    /\ cli.json /\ cli.output = Some("Text") /\ cli.profile # None
    /\ resolved.output_format = Some("Json")
    /\ Len(stdout) = 1
    /\ stdout[1].output = "json"

----------------------------------------------------------------------------
(* The credential variables *)

(* the credential variable of the provider that run() resolved *)
SelectedVariable ==
    IF resolved.provider[1] = "Openai" THEN "OPENAI_API_KEY" ELSE "FIREWORKS_API_KEY"

(* C24: every call of env::var on a credential variable comes after the
   resolution has bound all its locals and is on the variable of the
   resolved provider; the value is read only in a run that is not a dry run,
   by the adapter of that provider, and is the key the adapter holds; the
   presence is read only with --verbose, and the verbose line carries it as
   a boolean.  So a run that failed in the resolution made no such call. *)
C24_LazyCredentialRead ==
    /\ \A r \in env_reads :
          /\ AllBound
          /\ r.name = SelectedVariable
          /\ r.use = "value" =>
                /\ ~cli.dry_run
                /\ adapter = resolved.provider
                /\ api_key # "" => env_keys[r.name] = Some(api_key)
          /\ r.use = "presence" => cli.verbose
    /\ (rs_pc # "idle" /\ ~AllBound) => (env_reads = {} /\ api_key = "")
    /\ \A i \in DOMAIN stderr :
          stderr[i].line = "verbose" => stderr[i].api_key_present \in BOOLEAN

(* a verbose run on Fireworks that read the presence and then the value of
   FIREWORKS_API_KEY, the variable of OpenAI being set too *)
C24_Witness ==
    /\ resolved.provider = Some("Fireworks")
    /\ env_keys["OPENAI_API_KEY"] # None
    /\ env_reads = {[name |-> "FIREWORKS_API_KEY", use |-> "presence"],
                    [name |-> "FIREWORKS_API_KEY", use |-> "value"]}
    /\ calls > 0

----------------------------------------------------------------------------
(* --quiet *)

(* C25: a run of mpask given --quiet either succeeds (exit status 0) having
   written nothing on the error channel, whatever --show-usage and --verbose
   say, or fails on a fatal error of run(), which is the one line on the
   error channel, with an exit status that is not 0. *)
C25_Quiet ==
    ("--quiet" \in argv_rest /\ rs_pc = "exited") =>
        \/ exit_code = Some(0) /\ stderr = <<>>
        \/ /\ exit_code \notin {None, Some(0)}
           /\ run_error # None
           /\ stderr = <<[line |-> run_error[1].msg]>>

----------------------------------------------------------------------------
(* The sleeps of the executor *)

InExecutor == pc \in {"Attempting", "Awaiting", "Backoff", "Done", "Failed"}

(* C26: in the executor, and after it returned, the sleeps taken are one
   less than the HTTP attempts made, except right after a sleep was decided
   and until the next attempt is sent, when they are as many: no sleep comes
   before the first attempt and none after the last one.  The i-th sleep,
   counted from 0, lasts retry_delay(i, base), and the first one the smaller
   of base and 30000 ms. *)
C26_SleepsBetweenAttempts ==
    /\ calls = 0 => sleeps = <<>>
    /\ (pc \in {"Awaiting", "Done", "Failed", "returned"} /\ calls > 0) =>
          Len(sleeps) = calls - 1
    /\ (pc \in {"Attempting", "Backoff"} /\ calls > 0) => Len(sleeps) = calls
    /\ (InExecutor \/ pc = "returned") =>
          \A i \in DOMAIN sleeps :
              /\ sleeps[i] = retry_delay(N(i - 1), options.retry_delay_ms)
              /\ i = 1 => sleeps[i] = BigMin(options.retry_delay_ms, N(30000))

(* three attempts and the budget is spent: two sleeps, the second at the cap *)
C26_Witness ==
    /\ pc = "Failed"
    /\ calls = 3
    /\ options.retries = N(2)
    /\ Len(sleeps) = 2
    /\ sleeps[1] = N(20000) /\ sleeps[2] = N(30000)

----------------------------------------------------------------------------
(* Termination of the executor *)

Terminated == pc \in {"Done", "Failed"}

(* C27: the executor, whose every call and every sleep returns, eventually
   is in Done or in Failed, and when it is there it returned an outcome: the
   response in Done, the failure of the last attempt in Failed. *)
C27_Terminates ==
    /\ <>Terminated
    /\ [](pc = "Done" => exec_result.tag = "Ok")
    /\ [](pc = "Failed" => exec_result.tag \in {"Api", "Request"})

(* the budget of two retries was spent on three retryable failures *)
C27_Witness ==
    /\ pc = "Failed"
    /\ options.retries = N(2)
    /\ Len(outcomes) = 3
    /\ exec_result.from = 3

----------------------------------------------------------------------------
(* The attempt index *)

InLoop == pc \in {"Attempting", "Awaiting", "Backoff", "Done", "Failed"}

(* attempt changes only at the call, to 0, and after a sleep that followed a
   retryable failure, by one *)
AttemptStep ==
    attempt' # attempt =>
        \/ pc = "enter" /\ attempt' = N(0)
        \/ /\ pc = "Backoff"
           /\ sleeps # <<>>
           /\ LET o == outcomes[Len(outcomes)]
              IN  IF o.kind = "http" THEN is_retryable_status(o.status)
                  ELSE is_retryable_request_error(o.err)
           /\ attempt' = BigAdd(attempt, N(1))

(* C28: in the loop attempt < max_attempts and attempt <= retries; attempt
   stays under u32::MAX, so attempt + 1 fits 32 bits, and no addition panics
   or wraps; and attempt changes only by one, after a retryable failure and
   its sleep. *)
C28_AttemptIndex ==
    /\ [](InLoop => /\ BigLt(attempt, max_attempts)
                    /\ BigLe(attempt, options.retries)
                    /\ BigLt(attempt, U32_MAX))
    /\ [](pc # "Panicked")
    /\ [][AttemptStep]_vars

(* the last retry of a budget of u32::MAX: attempt is u32::MAX - 1 *)
C28_Witness ==
    /\ pc = "Attempting"
    /\ options.retries = U32_MAX
    /\ attempt = BigSub(U32_MAX, N(1))
    /\ calls > 0

----------------------------------------------------------------------------
(* A success status with a body that does not decode *)

(* the executor returned a response whose body is not a chat completion *)
UndecodableSuccess ==
    /\ pc = "returned"
    /\ exec_result.tag = "Ok"
    /\ ~outcomes[exec_result.from].parses

(* C29: when the executor returned a response with a success status whose
   body cannot be decoded, the adapter returns a Request error of its
   provider, and the response is the last attempt made, whatever budget is
   left; every attempt before a response with a success status failed. *)
C29_UndecodableBody ==
    /\ UndecodableSuccess =>
          /\ ask_result[1].tag = "Request"
          /\ ask_result[1].provider = provider
          /\ exec_result.from = calls /\ Len(outcomes) = calls
          /\ inflight = {}
    /\ \A i \in DOMAIN outcomes :
          (outcomes[i].kind = "http" /\ is_success(outcomes[i].status)) =>
              /\ i = Len(outcomes)
              /\ pc \in {"Done", "returned"}

(* the first attempt of a budget of two retries was answered 200 with a body
   that does not decode *)
C29_Witness ==
    /\ UndecodableSuccess
    /\ options.retries = N(2)
    /\ calls = 1
    /\ ask_result[1].tag = "Request"

----------------------------------------------------------------------------
(* Loading twice *)

(* C30: when run() loaded the profile it names, every load of that profile
   from the same file succeeds with the merged profile that this load
   returned, whatever the order in which the sections of the providers table
   are visited. *)
C30_LoadDeterministic ==
    (cli # <<>> /\ cli.profile # None /\ run_profile # None) =>
        \A r \in load_profile(config_file, cli.profile[1]) :
            r.ok /\ r.v.merged = run_profile[1]

====
